---- MODULE Spec2Model ----
(***************************************************************************)
(* A model of the python-rt client library (src/rt/rest1.py and            *)
(* src/rt/rest2.py): the paginated fetcher of the REST 2 client, the       *)
(* response classifier of the REST 1 client, and the REST 1 request        *)
(* serializer and field-block parser.                                      *)
(*                                                                         *)
(* Python strings are TLA+ strings; TLC evaluates Len, \o and SubSeq on    *)
(* them, so every string function below is computed character by           *)
(* character, as the code computes it.                                     *)
(***************************************************************************)
EXTENDS Integers, Sequences, FiniteSets, TLC

\* ------------------------------------------------------------------------
\* Bounds of the model.
\* ------------------------------------------------------------------------
\* The largest page / pages value a server envelope reports.
MaxPages == 3
\* The largest number of items in one envelope.
MaxItems == 2

\* ------------------------------------------------------------------------
\* Program constants.
\* ------------------------------------------------------------------------
\* The default of the per_page parameter of __paged_request.
DefaultPerPage == 20

VARIABLES
    \* --- REST 2 paginated fetcher (one generator and its consumer) ---
    control,    \* who runs: "consumer" or "generator"
    status,     \* of the generator: "created", "suspended", "running", "done", "raised"
    err,        \* the exception that ended the iteration, "" when none
    stack,      \* the generator frames of __paged_request, outermost first
    args,       \* the arguments of the outermost call
    calls,      \* the transport calls issued in this iteration, in order
    inflight,   \* the number of transport calls issued and not yet answered
    delivered,  \* the records yielded to the consumer in this iteration
    served,     \* the items of the envelopes the server returned, in order
    firstEnv,   \* the first envelope of this iteration
    lastEnv,    \* the envelope fetched last
    honest,     \* every envelope so far is well formed, echoes the page asked
                \* and reports the pages value of the first envelope
    \* --- REST 1 client: Rt.__request and the response it classifies ---
    login_result,  \* Rt.login_result
    request,       \* the arguments of the last __request call
    response,      \* what the transport answered to it
    outcome,       \* what __request returned or raised
    \* --- REST 1 serializer and field-block parser ---
    data_source,   \* the field mapping handed to __ticket_post_data
    post_data,     \* the text __ticket_post_data returned
    parsed,        \* what __parse_response_dict made of that text
    step,          \* "input", "serialized" or "parsed"
    \* --- REST 1 record assemblers (get_ticket, get_user, ...) ---
    rec_op,        \* the method called
    rec_msg,       \* what __request returned to it
    rec_ret,       \* what the method returned or raised
    \* --- REST 1 session: login, logout and the calls between them ---
    api_method,    \* the method called last on the client
    last_login,    \* what the most recent login() returned
    \* --- edit and create operations of both clients, and last_updated ---
    op_call,       \* the operation called and its arguments
    sent,          \* the transport calls the operation has issued, in order
    op_ret         \* what the operation returned or raised

pagedVars == <<control, status, err, stack, args, calls, inflight, delivered,
               served, firstEnv, lastEnv, honest>>

requestVars == <<login_result, request, response, outcome>>

roundTripVars == <<data_source, post_data, parsed, step>>

recordVars == <<rec_op, rec_msg, rec_ret>>

sessionVars == <<api_method, last_login>>

callVars == <<op_call, sent, op_ret>>

vars == <<pagedVars, requestVars, roundTripVars, recordVars, sessionVars, callVars>>

\* ------------------------------------------------------------------------
\* Helpers.
\* ------------------------------------------------------------------------
Max(a, b) == IF a >= b THEN a ELSE b

IsPrefix(s, t) == Len(s) <= Len(t) /\ SubSeq(t, 1, Len(s)) = s


\* ------------------------------------------------------------------------
\* Python's string functions, on TLA+ strings.
\* ------------------------------------------------------------------------
Min(S) == CHOOSE x \in S : \A y \in S : x <= y

\* s[i] (1-based).
Ch(s, i) == SubSeq(s, i, i)

\* s[n:] (0-based n, as in Python).
From(s, n) == SubSeq(s, n + 1, Len(s))

\* s.startswith(p), and re.match('^p') for a literal p.
StartsWith(s, p) == Len(s) >= Len(p) /\ SubSeq(s, 1, Len(p)) = p

\* s.endswith(p), and re.match('.*p$') for a literal p on one line.
EndsWith(s, p) == Len(s) >= Len(p) /\ SubSeq(s, Len(s) - Len(p) + 1, Len(s)) = p

\* s.find(sub) + 1: the 1-based place of the first occurrence, 0 for none.
Find(s, sub) ==
    LET at == {i \in 1..(Len(s) - Len(sub) + 1) : SubSeq(s, i, i + Len(sub) - 1) = sub}
    IN  IF at = {} THEN 0 ELSE Min(at)

\* s.partition(sep): <<before, sep, after>>, or <<s, "", "">> without sep.
Partition(s, sep) ==
    LET i == Find(s, sep)
    IN  IF i = 0 THEN <<s, "", "">>
        ELSE <<SubSeq(s, 1, i - 1), sep, From(s, i - 1 + Len(sep))>>

\* s.split(sep): always at least one element.
RECURSIVE Split(_, _)
Split(s, sep) ==
    LET i == Find(s, sep)
    IN  IF i = 0 THEN <<s>>
        ELSE <<SubSeq(s, 1, i - 1)>> \o Split(From(s, i - 1 + Len(sep)), sep)

\* sep.join(seq).
RECURSIVE Join(_, _)
Join(seq, sep) ==
    IF seq = <<>> THEN ""
    ELSE IF Len(seq) = 1 THEN seq[1]
    ELSE seq[1] \o sep \o Join(Tail(seq), sep)

\* The line boundaries of str.splitlines() and the characters of
\* str.isspace() that the model's alphabets can hold.
LineBreaks == {"\n", "\r", "\f"}

Whitespace == {" ", "\t", "\n", "\r", "\f"}

Digits == {"0", "1", "2", "3", "4", "5", "6", "7", "8", "9"}

\* s.splitlines(): "\r\n" is one boundary, and a final boundary ends the
\* last line without opening an empty one.
RECURSIVE SplitLines(_)
SplitLines(s) ==
    IF s = "" THEN <<>>
    ELSE LET at == {i \in 1..Len(s) : Ch(s, i) \in LineBreaks}
         IN  IF at = {} THEN <<s>>
             ELSE LET i == Min(at)
                      w == IF Ch(s, i) = "\r" /\ i < Len(s) /\ Ch(s, i + 1) = "\n"
                             THEN 2 ELSE 1
                  IN  <<SubSeq(s, 1, i - 1)>> \o SplitLines(From(s, i - 1 + w))

\* s.lstrip().
LStrip(s) ==
    LET at == {i \in 1..Len(s) : Ch(s, i) \notin Whitespace}
    IN  IF at = {} THEN "" ELSE From(s, Min(at) - 1)

\* RE_PATTERNS['status_pattern'].match(line): ^\S+ (\d{3}) followed by a
\* space.  \S+ takes every character before the first whitespace, which
\* must be a space.
StatusPattern(line) ==
    LET at == {i \in 1..Len(line) : Ch(line, i) \in Whitespace}
    IN  /\ at # {}
        /\ LET i == Min(at)
           IN  /\ i > 1
               /\ Ch(line, i) = " "
               /\ Len(line) >= i + 4
               /\ \A j \in (i + 1)..(i + 3) : Ch(line, j) \in Digits
               /\ Ch(line, i + 4) = " "

\* A dict, as Python keeps it: the keys in insertion order; assigning to a
\* key that is present replaces its value in place.
DictKeys(d) == {d[i].key : i \in 1..Len(d)}

DictGet(d, k) == d[CHOOSE i \in 1..Len(d) : d[i].key = k].value

DictSet(d, k, v) ==
    IF k \in DictKeys(d)
      THEN [i \in 1..Len(d) |-> IF d[i].key = k THEN [key |-> k, value |-> v] ELSE d[i]]
      ELSE Append(d, [key |-> k, value |-> v])

\* ========================================================================
\* REST 2: Rt.__paged_request and Rt.__check_response (src/rt/rest2.py)
\* ========================================================================

\* The keys of a well-formed envelope.
EnvelopeKeys == {"items", "page", "pages", "per_page"}

\* No envelope (nothing fetched yet, or the response carried none).
NoEnv == [keys |-> {}, items |-> <<>>, page |-> 0, pages |-> 0, per_page |-> 0]

\* The records of one page: the server names them by page and position.
Items(page, n) == [j \in 1..n |-> <<page, j>>]

\* The per_page values a server reports: the one asked for, or its own.
ServerPerPage(asked) == {asked, 1}

\* The page values a server reports: the one asked for, or the first page.
ServerPage(asked) == {asked, 1}

\* The JSON objects a server may return for a request of `page` with
\* `per_page`: every key present, or exactly one key missing.  An absent
\* key carries no value.
Envelopes(page, per_page) ==
    { [keys     |-> ks,
       items    |-> IF "items" \in ks THEN Items(page, n) ELSE <<>>,
       page     |-> IF "page" \in ks THEN pg ELSE 0,
       pages    |-> IF "pages" \in ks THEN pgs ELSE 0,
       per_page |-> IF "per_page" \in ks THEN pp ELSE 0] :
         ks \in {EnvelopeKeys} \cup {EnvelopeKeys \ {k} : k \in EnvelopeKeys},
         n \in 0..MaxItems, pg \in ServerPage(page), pgs \in 0..MaxPages,
         pp \in ServerPerPage(per_page) }

\* What the transport returns: a connection error, or an HTTP response whose
\* body is a JSON object (an envelope), a JSON list, a JSON list holding the
\* string "items", or no JSON at all.  Status 201 is accepted like 200 and
\* leads to the same state, so envelopes are enumerated under 200 only.
HttpCodes == {200, 201, 400, 401, 404, 500}

Responses(page, per_page) ==
    {[transport |-> "ConnectionError", status_code |-> 0, json |-> "none", env |-> NoEnv]}
    \cup {[transport |-> "ok", status_code |-> c, json |-> "none", env |-> NoEnv] :
            c \in HttpCodes \ {200, 201}}
    \cup {[transport |-> "ok", status_code |-> c, json |-> j, env |-> NoEnv] :
            c \in {200, 201}, j \in {"notjson", "list", "listItems"}}
    \cup {[transport |-> "ok", status_code |-> 200, json |-> "dict", env |-> e] :
            e \in Envelopes(page, per_page)}

\* Rt.__check_response of rest2: the error an HTTP status raises, "" for none.
CheckResponse2(status_code) ==
    IF status_code = 400 THEN "BadRequestError"
    ELSE IF status_code = 401 THEN "AuthorizationError"
    ELSE IF status_code = 404 THEN "NotFoundError"
    ELSE IF status_code \notin {200, 201} THEN "UnexpectedResponseError"
    ELSE ""

\* Lines 306-310: page and per_page are written into the params dict (the
\* caller's own dict when it is non-empty, a new one otherwise).
SetPaging(params, page, per_page) ==
    [base |-> params.base, page |-> page, per_page |-> per_page]

\* Lines 315-319: the transport call of a frame.
RequestOf(f) ==
    [method    |-> IF f.json_data = "None" THEN "get" ELSE "post",
     json_data |-> f.json_data,
     params    |-> SetPaging(f.params, f.page, f.per_page)]

\* A generator frame of __paged_request whose body has not yet started.
NewFrame(json_data, params, page, per_page, recurse) ==
    [json_data |-> json_data, params |-> params, page |-> page,
     per_page |-> per_page, recurse |-> recurse, pc |-> "start",
     result |-> NoEnv, i |-> 1, loopPage |-> 0]

\* The page parameter of __paged_request: its default, which every caller
\* in the library uses, and a later page.
StartPages == {1, 2}

\* The arguments the callers of __paged_request pass (search, get_history,
\* get_attachments, get_attachments_ids, get_all_queues): a params dict or
\* none, a JSON body or none; page is the start page, per_page the default.
ArgChoices ==
    { [json_data |-> c[1], params |-> [base |-> c[2]], page |-> p,
       per_page |-> DefaultPerPage] :
        c \in {<<"None", "fields">>, <<"filter", "None">>}, p \in StartPages }

Top == stack[Len(stack)]

SetTop(f) == [stack EXCEPT ![Len(stack)] = f]

\* Line 336 with >= for >.
MorePages_Mut(f) == f.recurse /\ f.result.pages >= f.result.page

\* Line 336: the condition under which the frame fetches further pages.
MorePages(f) == f.recurse /\ f.result.pages > f.result.page

\* Line 337 with the loop starting at page 1.
FirstLoopPage_Mut(f) == 1

\* Line 337: the first page number of the loop over further pages.
FirstLoopPage(f) == 2

\* Line 334 leaving the envelope one item early.
ItemsExhausted_Mut(f) == f.i >= Len(f.result.items)

\* Line 334: every item of the frame's envelope has been yielded.
ItemsExhausted(f) == f.i > Len(f.result.items)

\* Line 339 with recurse passed on as true.
InnerRecurse_Mut == TRUE

\* Line 339: the recurse flag of the calls for further pages.
InnerRecurse == FALSE

\* An exception leaves every frame of the generator: the iteration ends.
RaiseIn(kind) ==
    /\ stack' = <<>>
    /\ status' = "raised"
    /\ err' = kind
    /\ control' = "consumer"

\* The generator function is called: nothing of its body runs yet.
NewIteration ==
    /\ UNCHANGED <<requestVars, roundTripVars, recordVars, sessionVars, callVars>>
    /\ control = "consumer"
    /\ status \in {"done", "raised"}
    /\ \E a \in ArgChoices :
         /\ args' = a
         /\ stack' = <<NewFrame(a.json_data, a.params, a.page, a.per_page, TRUE)>>
    /\ status' = "created"
    /\ err' = ""
    /\ calls' = <<>>
    /\ delivered' = <<>>
    /\ served' = <<>>
    /\ firstEnv' = NoEnv
    /\ lastEnv' = NoEnv
    /\ honest' = TRUE
    /\ UNCHANGED <<control, inflight>>

\* The consumer asks for the next record (next() on the generator).
ConsumerNext ==
    /\ UNCHANGED <<requestVars, roundTripVars, recordVars, sessionVars, callVars>>
    /\ control = "consumer"
    /\ status \in {"created", "suspended"}
    /\ control' = "generator"
    /\ status' = "running"
    /\ UNCHANGED <<err, stack, args, calls, inflight, delivered, served,
                   firstEnv, lastEnv, honest>>

\* Lines 306-319: the frame writes page and per_page into params and issues
\* its transport call, which blocks.
IssueRequest ==
    /\ UNCHANGED <<requestVars, roundTripVars, recordVars, sessionVars, callVars>>
    /\ control = "generator"
    /\ stack # <<>>
    /\ Top.pc = "start"
    /\ calls' = Append(calls, RequestOf(Top))
    /\ inflight' = inflight + 1
    /\ stack' = SetTop([Top EXCEPT !.pc = "wait",
                                   !.params = SetPaging(Top.params, Top.page, Top.per_page)])
    /\ UNCHANGED <<control, status, err, args, delivered, served, firstEnv,
                   lastEnv, honest>>

\* Lines 319-332 and 341-342: the transport call returns; the response is
\* checked and its JSON taken as the frame's result.
ReceiveResponse ==
    /\ UNCHANGED <<requestVars, roundTripVars, recordVars, sessionVars, callVars>>
    /\ control = "generator"
    /\ stack # <<>>
    /\ Top.pc = "wait"
    /\ inflight' = inflight - 1
    /\ \E r \in Responses(Top.page, Top.per_page) :
         /\ lastEnv' = r.env
         /\ firstEnv' = IF Len(calls) = 1 THEN r.env ELSE firstEnv
         /\ served' = served \o r.env.items
         /\ honest' = (/\ honest
                       /\ r.json = "dict"
                       /\ r.env.keys = EnvelopeKeys
                       /\ r.env.page = Top.page
                       /\ Len(calls) > 1 => r.env.pages = firstEnv.pages)
         /\ IF r.transport # "ok" THEN
                /\ RaiseIn("ConnectionError")
            ELSE IF CheckResponse2(r.status_code) # "" THEN
                /\ RaiseIn(CheckResponse2(r.status_code))
            ELSE IF r.json = "notjson" THEN
                \* response.json() raises; nothing catches it
                /\ RaiseIn("JSONDecodeError")
            ELSE IF r.json = "listItems" THEN
                \* line 331: not a dict, and 'items' in result
                /\ RaiseIn("UnexpectedResponseError")
            ELSE IF r.json = "list" THEN
                \* line 334: result['items'] on a list
                /\ RaiseIn("TypeError")
            ELSE IF "items" \notin r.env.keys THEN
                \* line 334: result['items'] on a dict without the key
                /\ RaiseIn("KeyError")
            ELSE
                /\ stack' = SetTop([Top EXCEPT !.pc = "items", !.result = r.env, !.i = 1])
                /\ UNCHANGED <<control, status, err>>
    /\ UNCHANGED <<args, calls, delivered>>

\* Line 334: yield from result['items'], one record per request of the
\* consumer.
YieldItem ==
    /\ UNCHANGED <<requestVars, roundTripVars, recordVars, sessionVars, callVars>>
    /\ control = "generator"
    /\ stack # <<>>
    /\ Top.pc = "items"
    /\ ~ItemsExhausted(Top)
    /\ delivered' = Append(delivered, Top.result.items[Top.i])
    /\ stack' = SetTop([Top EXCEPT !.i = Top.i + 1])
    /\ control' = "consumer"
    /\ status' = "suspended"
    /\ UNCHANGED <<err, args, calls, inflight, served, firstEnv, lastEnv,
                   honest>>

\* The frame on top returns: an inner frame gives control back to the loop
\* of the outer one, the outermost ends the iteration (StopIteration).
ReturnFrom ==
    IF Len(stack) = 1
      THEN /\ stack' = <<>>
           /\ status' = "done"
           /\ control' = "consumer"
           /\ UNCHANGED err
      ELSE /\ stack' = [SubSeq(stack, 1, Len(stack) - 1) EXCEPT
                          ![Len(stack) - 1].loopPage = stack[Len(stack) - 1].loopPage + 1]
           /\ UNCHANGED <<control, status, err>>

\* Line 336, after the last item: a frame called with recurse false returns
\* without reading the envelope; the outermost frame reads pages and page.
AfterItems ==
    /\ UNCHANGED <<requestVars, roundTripVars, recordVars, sessionVars, callVars>>
    /\ control = "generator"
    /\ stack # <<>>
    /\ Top.pc = "items"
    /\ ItemsExhausted(Top)
    /\ IF ~Top.recurse THEN ReturnFrom
       ELSE IF ~({"pages", "page"} \subseteq Top.result.keys) THEN RaiseIn("KeyError")
       ELSE IF MorePages(Top) THEN
            /\ stack' = SetTop([Top EXCEPT !.pc = "loop", !.loopPage = FirstLoopPage(Top)])
            /\ UNCHANGED <<control, status, err>>
       ELSE ReturnFrom
    /\ UNCHANGED <<args, calls, inflight, delivered, served, firstEnv, lastEnv,
                   honest>>

\* Lines 337-339: the loop over range(2, pages + 1); each turn calls
\* __paged_request for one page with the per_page of the frame's envelope.
LoopStep ==
    /\ UNCHANGED <<requestVars, roundTripVars, recordVars, sessionVars, callVars>>
    /\ control = "generator"
    /\ stack # <<>>
    /\ Top.pc = "loop"
    /\ IF Top.loopPage > Top.result.pages THEN ReturnFrom
       ELSE IF "per_page" \notin Top.result.keys THEN RaiseIn("KeyError")
       ELSE /\ stack' = Append(stack, NewFrame(Top.json_data, Top.params, Top.loopPage,
                                               Top.result.per_page, InnerRecurse))
            /\ UNCHANGED <<control, status, err>>
    /\ UNCHANGED <<args, calls, inflight, delivered, served, firstEnv, lastEnv,
                   honest>>

\* The values of the variables of a part of the library that is not in use.
IdlePaged ==
    /\ control = "consumer"
    /\ status = "done"
    /\ err = ""
    /\ stack = <<>>
    /\ args = [json_data |-> "None", params |-> [base |-> "None"], page |-> 1,
               per_page |-> DefaultPerPage]
    /\ calls = <<>>
    /\ inflight = 0
    /\ delivered = <<>>
    /\ served = <<>>
    /\ firstEnv = NoEnv
    /\ lastEnv = NoEnv
    /\ honest = TRUE

NoRequest == [without_login |-> FALSE, text_response |-> TRUE]

NoResponse == [transport |-> "none", status_code |-> 0, decode |-> "none", body |-> ""]

NoOutcome == [kind |-> "none", error |-> "", message |-> "", value |-> ""]

IdleRequest ==
    /\ login_result = FALSE
    /\ request = NoRequest
    /\ response = NoResponse
    /\ outcome = NoOutcome

NoParse == [error |-> "", message |-> "", fields |-> <<>>, expect_keys |-> <<>>]

IdleRoundTrip ==
    /\ data_source = <<>>
    /\ post_data = ""
    /\ parsed = NoParse
    /\ step = "idle"

NoRet == [kind |-> "none", error |-> "", message |-> "", fields |-> <<>>, content |-> ""]

IdleRecords ==
    /\ rec_op = ""
    /\ rec_msg = ""
    /\ rec_ret = NoRet

IdleSession ==
    /\ api_method = ""
    /\ last_login = "none"

NoCall == [api |-> "", op |-> "", id |-> "", names |-> <<>>]

IdleCalls ==
    /\ op_call = NoCall
    /\ sent = <<>>
    /\ op_ret = NoOutcome

InitPaged ==
    /\ IdlePaged
    /\ IdleRequest
    /\ IdleRoundTrip
    /\ IdleRecords
    /\ IdleSession
    /\ IdleCalls

NextPaged ==
    \/ NewIteration
    \/ ConsumerNext
    \/ IssueRequest
    \/ ReceiveResponse
    \/ YieldItem
    \/ AfterItems
    \/ LoopStep

SpecPaged == InitPaged /\ [][NextPaged]_vars

\* ========================================================================
\* REST 1: Rt.__request and Rt.__check_response (src/rt/rest1.py)
\* ========================================================================

\* The largest number of lines of a response body.
MaxLines == 4

\* What a call returns or raises.
Raise(error, message) ==
    [kind |-> "raise", error |-> error, message |-> message, value |-> ""]

Return(value) == [kind |-> "return", error |-> "", message |-> "", value |-> value]

\* RE_PATTERNS, as matched by re.match on one line of the body.
NotAllowedPattern(line) == StartsWith(line, "# You are not allowed to")

CredentialsRequiredPattern(line) == EndsWith(line, " 401 Credentials required")

SyntaxErrorPattern(line) == EndsWith(line, " 409 Syntax Error")

BadRequestPattern(line) == EndsWith(line, " 400 Bad Request")

\* Line 265 keeping the whole of line 3.
NotAllowedMessage_Mut(line) == line

\* Line 265: msg[2][2:], the message of NotAllowedError.
NotAllowedMessage(line) == From(line, 2)

\* Line 271: msg[3] if len(msg) > 2 else 'Bad request.'; msg[3] of a list
\* of three lines raises IndexError.
BadRequestOutcome(msg) ==
    IF Len(msg) > 2
      THEN IF Len(msg) > 3
             THEN Raise("BadRequestError", msg[4])
             ELSE Raise("IndexError", "list index out of range")
      ELSE Raise("BadRequestError", "Bad request.")

\* Rt.__check_response on the list of lines of the body.
CheckResponse1(msg) ==
    IF Len(msg) > 2 /\ NotAllowedPattern(msg[3])
      THEN Raise("NotAllowedError", NotAllowedMessage(msg[3]))
    ELSE IF CredentialsRequiredPattern(msg[1])
      THEN Raise("AuthorizationError", "Credentials required.")
    ELSE IF SyntaxErrorPattern(msg[1])
      THEN Raise("APISyntaxError", IF Len(msg) > 2 THEN From(msg[3], 2) ELSE "Syntax error.")
    ELSE IF BadRequestPattern(msg[1])
      THEN BadRequestOutcome(msg)
    ELSE Return("")

\* Lines 215-218 without the check of line 217.
HttpError_Mut(status_code) ==
    IF status_code = 401
      THEN Raise("AuthorizationError",
                 "Server could not verify that you are authorized to access the requested document.")
      ELSE Return("")

\* Lines 215-218: the error the HTTP status raises, if any.
HttpError(status_code) ==
    IF status_code = 401
      THEN Raise("AuthorizationError",
                 "Server could not verify that you are authorized to access the requested document.")
    ELSE IF status_code # 200
      THEN Raise("UnexpectedResponseError",
                 "Received status code " \o ToString(status_code) \o " instead of 200.")
    ELSE Return("")

\* Lines 190-192: the request goes out only after a login, unless the call
\* is the login itself.  (login_result None counts as false.)
Sends(logged_in, req) == logged_in \/ req.without_login

\* Rt.__request: what it returns or raises for the transport's answer.
\* resp.body is the decoded text (decoded with replacement characters when
\* the content is no valid text and the caller asked for bytes).
Request1(logged_in, req, resp) ==
    IF ~Sends(logged_in, req)
      THEN Raise("AuthorizationError", "First login by calling method login.")
    ELSE IF resp.transport = "ConnectionError"
      THEN Raise("ConnectionError", "Connection error")
    ELSE IF HttpError(resp.status_code).kind = "raise"
      THEN HttpError(resp.status_code)
    ELSE IF resp.decode = "LookupError"
      THEN Raise("UnexpectedResponseError", "Unknown response encoding.")
    ELSE IF resp.decode = "UnicodeError" /\ req.text_response
      THEN Raise("UnexpectedResponseError", "Unknown response encoding (UTF-8 does not work).")
    ELSE IF CheckResponse1(Split(resp.body, "\n")).kind = "raise"
      THEN CheckResponse1(Split(resp.body, "\n"))
    ELSE Return(resp.body)

\* The first line of a body: a status line of the server, or none.
FirstLines ==
    {"RT/4.0.7 200 Ok", "RT/4.0.7 401 Credentials required",
     "RT/4.0.7 409 Syntax Error", "RT/4.0.7 400 Bad Request", ""}

\* The lines after it.
OtherLines ==
    {"", "# You are not allowed to view ticket 5", "# Unknown object type: x", "id: ticket/5"}

RECURSIVE LineSeqs(_)
LineSeqs(n) ==
    IF n = 0 THEN {<<>>}
    ELSE {Append(ls, l) : ls \in LineSeqs(n - 1), l \in OtherLines}

\* The bodies of one to MaxLines lines.
Bodies ==
    {Join(<<f>> \o rest, "\n") :
       f \in FirstLines, rest \in UNION {LineSeqs(n) : n \in 0..(MaxLines - 1)}}

\* What the transport answers: a connection error, or an HTTP status, a
\* content that decodes or not, and the text of the body.
Responses1 ==
    {[transport |-> "ConnectionError", status_code |-> 0, decode |-> "none", body |-> ""]}
    \cup [transport : {"ok"}, status_code : {200, 201, 401, 500},
          decode : {"ok", "LookupError", "UnicodeError"}, body : Bodies]

\* The ways the library calls __request: login() without a login, the
\* attachment getters for bytes, every other method for text.
RequestChoices ==
    {[without_login |-> TRUE, text_response |-> TRUE],
     [without_login |-> FALSE, text_response |-> TRUE],
     [without_login |-> FALSE, text_response |-> FALSE]}

\* One call of __request, by a caller that holds no earlier result.
DoRequest ==
    /\ UNCHANGED <<pagedVars, roundTripVars, recordVars, sessionVars, callVars>>
    /\ outcome = NoOutcome
    /\ \E req \in RequestChoices, resp \in Responses1 :
         /\ request' = req
         /\ response' = IF Sends(login_result, req) THEN resp ELSE NoResponse
         /\ outcome' = Request1(login_result, req, resp)
    /\ UNCHANGED login_result

\* Rt.__init__: login_result is true with cookies, skip_login or http_auth.
InitRequest ==
    /\ IdlePaged
    /\ IdleRoundTrip
    /\ IdleRecords
    /\ IdleSession
    /\ IdleCalls
    /\ login_result \in BOOLEAN
    /\ request = NoRequest
    /\ response = NoResponse
    /\ outcome = NoOutcome

\* The caller has taken the result or the exception and goes on to its
\* next call on the same object.
NextCall ==
    /\ UNCHANGED <<pagedVars, roundTripVars, recordVars, sessionVars, callVars>>
    /\ outcome # NoOutcome
    /\ request' = NoRequest
    /\ response' = NoResponse
    /\ outcome' = NoOutcome
    /\ UNCHANGED login_result

NextRequest == DoRequest \/ NextCall

SpecRequest == InitRequest /\ [][NextRequest]_vars

\* ------------------------------------------------------------------------
\* Properties of the REST 1 classifier.
\* ------------------------------------------------------------------------
\* The lines of the body of the response classified last.
BodyLines == Split(response.body, "\n")

\* The request went out and its answer reached the body rules.
ReachedBody ==
    /\ response.transport = "ok"
    /\ response.status_code = 200
    /\ response.decode = "ok"

\* The error a body rule of the documented list gives, "" when none matches.
BodyRule(msg) ==
    IF Len(msg) > 2 /\ NotAllowedPattern(msg[3]) THEN "NotAllowedError"
    ELSE IF CredentialsRequiredPattern(msg[1]) THEN "AuthorizationError"
    ELSE IF SyntaxErrorPattern(msg[1]) THEN "APISyntaxError"
    ELSE IF BadRequestPattern(msg[1]) THEN "BadRequestError"
    ELSE ""

After(line, lead) == From(line, Find(line, lead) - 1 + Len(lead))

\* C9 as claimed: when line 3 of the body is '# You are not allowed to
\* <rest>', NotAllowedError is raised with <rest> as its message.
C9_MessageIsRemainder ==
    (ReachedBody /\ Len(BodyLines) > 2 /\ NotAllowedPattern(BodyLines[3])) =>
        /\ outcome.error = "NotAllowedError"
        /\ outcome.message = After(BodyLines[3], "You are not allowed to ")

\* C9 as amended: for a response with HTTP status 200 whose content
\* decodes, when line 3 of the body is '# You are not allowed to <rest>',
\* NotAllowedError is raised and its message is line 3 without its first
\* two characters: 'You are not allowed to <rest>'.
C9_MessageIsLineWithoutHash ==
    (ReachedBody /\ Len(BodyLines) > 2 /\ NotAllowedPattern(BodyLines[3])) =>
        /\ outcome.error = "NotAllowedError"
        /\ outcome.message = "You are not allowed to "
                               \o After(BodyLines[3], "You are not allowed to ")

\* C9 witness: the example of the specification.
C9_Witness ==
    /\ ReachedBody
    /\ BodyLines = <<"RT/4.0.7 200 Ok", "", "# You are not allowed to view ticket 5">>
    /\ outcome = Raise("NotAllowedError", "You are not allowed to view ticket 5")

\* C10: for a body whose first line ends with '400 Bad Request' (and whose
\* third line is no not-allowed line), BadRequestError is raised, with line
\* 4 as its message when the body has at least four lines and the generic
\* message otherwise.
C10_BadRequestAlways ==
    (/\ ReachedBody
     /\ BadRequestPattern(BodyLines[1])
     /\ ~(Len(BodyLines) > 2 /\ NotAllowedPattern(BodyLines[3])))
    => outcome = Raise("BadRequestError",
                       IF Len(BodyLines) >= 4 THEN BodyLines[4] ELSE "Bad request.")

\* ========================================================================
\* REST 1: Rt.__ticket_post_data and Rt.__parse_response_dict
\* (src/rt/rest1.py)
\* ========================================================================

\* The largest number of characters of the values of one mapping.
MaxLen == 5

\* A value of the mapping: a string, or a list of strings.
Str(s) == [kind |-> "str", s |-> s, items |-> <<>>]

List(items) == [kind |-> "list", s |-> "", items |-> items]

\* Lines 650-653: the key as RT names it.
RtKey(key) == IF StartsWith(key, "CF_") THEN "CF.{" \o From(key, 3) \o "}" ELSE key

\* Lines 655-656: a list or tuple is joined with ', '.
ValueText(value) == IF value.kind = "list" THEN Join(value.items, ", ") ELSE value.s

\* Line 659: what is put before every line of a value but its first.
ContinuationPrefix == " "

\* Lines 657-659: the lines one field contributes.
FieldLines(key, value) ==
    LET value_lines == SplitLines(ValueText(value))
        first == IF value_lines = <<>> THEN "" ELSE value_lines[1]
    IN  <<RtKey(key) \o ": " \o first>>
        \o [i \in 1..(Len(value_lines) - 1) |-> ContinuationPrefix \o value_lines[i + 1]]

RECURSIVE PostDataLines(_)
PostDataLines(ds) ==
    IF ds = <<>> THEN <<>>
    ELSE FieldLines(ds[1].key, ds[1].value) \o PostDataLines(Tail(ds))

\* Rt.__ticket_post_data.
TicketPostData(ds) == Join(PostDataLines(ds), "\n")

\* Line 305: the key of a line that belongs to no field.
NoKey == "<no key>"

\* The state of the parser's loop: the dict of the fields, each with the
\* list of its lines, the current key, and the error raised, if any.
ParseStart == [fields |-> <<>>, key |-> NoKey, error |-> "", message |-> ""]

ParseError(st, message) ==
    [st EXCEPT !.error = "UnexpectedMessageFormatError", !.message = message]

\* Lines 319-331 without the test of line 320: every line is split at its
\* first ': '.
FieldLine_Mut(st, line) ==
    LET parts == Partition(line, ": ")
    IN  IF parts[2] # ""
          THEN [st EXCEPT !.key = parts[1], !.fields = DictSet(st.fields, parts[1], <<parts[3]>>)]
        ELSE IF EndsWith(line, ":")
          THEN LET key == SubSeq(line, 1, Len(line) - 1)
               IN  [st EXCEPT !.key = key, !.fields = DictSet(st.fields, key, <<>>)]
        ELSE ParseError(st, "Response has a line without a field name: " \o line)

\* Lines 319-331 with a key that is already in the dict left as it is: the
\* first write wins.
FieldLine_First(st, line) ==
    LET sep == IF StartsWith(line, "CF.{") THEN "}: " ELSE ": "
        parts == Partition(line, sep)
    IN  IF parts[2] # ""
          THEN LET key == parts[1] \o SubSeq(sep, 1, Len(sep) - 2)
               IN  [st EXCEPT !.key = key,
                              !.fields = IF key \in DictKeys(st.fields) THEN st.fields
                                         ELSE DictSet(st.fields, key, <<parts[3]>>)]
        ELSE IF EndsWith(line, ":")
          THEN LET key == SubSeq(line, 1, Len(line) - 1)
               IN  [st EXCEPT !.key = key,
                              !.fields = IF key \in DictKeys(st.fields) THEN st.fields
                                         ELSE DictSet(st.fields, key, <<>>)]
        ELSE ParseError(st, "Response has a line without a field name: " \o line)

\* Lines 319-331: a line that opens a field.
FieldLine(st, line) ==
    LET sep == IF StartsWith(line, "CF.{") THEN "}: " ELSE ": "
        parts == Partition(line, sep)
    IN  IF parts[2] # ""
          THEN LET key == parts[1] \o SubSeq(sep, 1, Len(sep) - 2)
               IN  [st EXCEPT !.key = key, !.fields = DictSet(st.fields, key, <<parts[3]>>)]
        ELSE IF EndsWith(line, ":")
          THEN LET key == SubSeq(line, 1, Len(line) - 1)
               IN  [st EXCEPT !.key = key, !.fields = DictSet(st.fields, key, <<>>)]
        ELSE ParseError(st, "Response has a line without a field name: " \o line)

\* Lines 307-331: one turn of the loop.
ParseLine(st, line) ==
    IF \/ line = ""
       \/ StartsWith(line, "#")
       \/ (st.fields = <<>> /\ StatusPattern(line))
      THEN [st EXCEPT !.key = NoKey]
    ELSE IF Ch(line, 1) \in Whitespace
      THEN IF st.key \in DictKeys(st.fields)
             THEN [st EXCEPT !.fields =
                      DictSet(st.fields, st.key,
                              Append(DictGet(st.fields, st.key), LStrip(line)))]
             ELSE ParseError(st, "Response has a continuation line with no field to continue")
    ELSE FieldLine(st, line)

\* Lines 306-331: the loop; the first error ends it.
RECURSIVE ParseLines(_, _)
ParseLines(st, msg) ==
    IF msg = <<>> \/ st.error # "" THEN st
    ELSE ParseLines(ParseLine(st, Head(msg)), Tail(msg))

\* Lines 332-334 left out: no key is looked for.
MissingKeys_Mut(fields, expect_keys) == <<>>

\* Lines 332-334: the expected keys that are missing, in order.
MissingKeys(fields, expect_keys) ==
    SelectSeq(expect_keys, LAMBDA k : k \notin DictKeys(fields))

\* Rt.__parse_response_dict on an iterable of lines: the error it raises,
\* or the dict it returns.
ParseResponseLines(lines, expect_keys) ==
    LET st == ParseLines(ParseStart, lines)
        missing == MissingKeys(st.fields, expect_keys)
    IN  IF st.error # ""
          THEN [error |-> st.error, message |-> st.message, fields |-> <<>>,
                expect_keys |-> expect_keys]
        ELSE IF missing # <<>>
          THEN [error |-> "UnexpectedMessageFormatError",
                message |-> "Missing line starting with " \o missing[1] \o ":.",
                fields |-> <<>>, expect_keys |-> expect_keys]
        ELSE [error |-> "", message |-> "",
              fields |-> [i \in 1..Len(st.fields) |->
                            [key |-> st.fields[i].key,
                             value |-> Join(st.fields[i].value, "\n")]],
              expect_keys |-> expect_keys]

\* Rt.__parse_response_dict on a string (lines 302-303: msg.split('\n')).
ParseResponseDict(msg, expect_keys) == ParseResponseLines(Split(msg, "\n"), expect_keys)

\* The characters of the values.
Alphabet == {"a", "1", " ", "\n", "\r"}

\* The strings of n characters, and of at most n.
RECURSIVE StringsOfLen(_)
StringsOfLen(n) ==
    IF n = 0 THEN {""} ELSE {s \o c : s \in StringsOfLen(n - 1), c \in Alphabet}

Strings(n) == UNION {StringsOfLen(k) : k \in 0..n}

\* A mapping of one field, and of two.
OneField(k, v) == <<[key |-> k, value |-> v]>>

TwoFields(k1, v1, k2, v2) == <<[key |-> k1, value |-> v1], [key |-> k2, value |-> v2]>>

\* The field mappings handed to the serializer: none, one or two fields,
\* in either order, the first value of at most MaxLen characters.
IsMapping(ds) ==
    \/ ds = <<>>
    \/ \E k \in {"Subject", "CF_a"}, s \in Strings(MaxLen) : ds = OneField(k, Str(s))
    \/ \E l \in {<<>>, <<"a">>, <<"a", "1">>} : ds = OneField("AdminCc", List(l))
    \/ \E ks \in {<<"Subject", "Text">>, <<"Text", "Subject">>},
           s \in Strings(MaxLen), t \in Strings(1) :
          ds = TwoFields(ks[1], Str(s), ks[2], Str(t))

\* The keys a caller expects in the parsed block.
ExpectKeys == {<<>>, <<"Subject">>}

\* A call of __ticket_post_data.
Serialize ==
    /\ UNCHANGED <<pagedVars, requestVars, recordVars, sessionVars, callVars>>
    /\ step = "input"
    /\ post_data' = TicketPostData(data_source)
    /\ step' = "serialized"
    /\ UNCHANGED <<data_source, parsed>>

\* A call of __parse_response_dict on the text serialized.
Parse ==
    /\ UNCHANGED <<pagedVars, requestVars, recordVars, sessionVars, callVars>>
    /\ step = "serialized"
    /\ \E expect_keys \in ExpectKeys :
         parsed' = ParseResponseDict(post_data, expect_keys)
    /\ step' = "parsed"
    /\ UNCHANGED <<data_source, post_data>>

InitRoundTrip ==
    /\ IdlePaged
    /\ IdleRequest
    /\ IdleRecords
    /\ IdleSession
    /\ IdleCalls
    /\ IsMapping(data_source)
    /\ post_data = ""
    /\ parsed = NoParse
    /\ step = "input"

NextRoundTrip == Serialize \/ Parse

SpecRoundTrip == InitRoundTrip /\ [][NextRoundTrip]_vars

\* The custom fields handed to the serializer: the names, one of them with
\* ': ' and one with '}: ' in it, and the values.
CustomFieldNames == {"Severity", "Name: With Colon", "a}: b", "a b"}

CustomFieldValues == {"v", "x: y", "111 x", "a}: b", "", " v "}

\* A mapping of a custom field alone, or after or before a plain field.
IsCustomMapping(ds) ==
    \E n \in CustomFieldNames, v \in CustomFieldValues :
        \/ ds = OneField("CF_" \o n, Str(v))
        \/ ds = TwoFields("Subject", Str("s"), "CF_" \o n, Str(v))
        \/ ds = TwoFields("CF_" \o n, Str(v), "Subject", Str("s"))

InitCustomField ==
    /\ IdlePaged
    /\ IdleRequest
    /\ IdleRecords
    /\ IdleSession
    /\ IdleCalls
    /\ IsCustomMapping(data_source)
    /\ post_data = ""
    /\ parsed = NoParse
    /\ step = "input"

SpecCustomField == InitCustomField /\ [][NextRoundTrip]_vars

\* ------------------------------------------------------------------------
\* Properties of the serializer and the field-block parser.
\* ------------------------------------------------------------------------
\* The lines of a value, every line boundary counted, the last line too.
RECURSIVE AllLines(_)
AllLines(s) ==
    LET at == {i \in 1..Len(s) : Ch(s, i) \in LineBreaks}
    IN  IF at = {} THEN <<s>>
        ELSE <<SubSeq(s, 1, Min(at) - 1)>> \o AllLines(From(s, Min(at)))

\* A value of several lines one of which is empty or only whitespace.
HasBlankLine(s) ==
    /\ Len(AllLines(s)) > 1
    /\ \E i \in 1..Len(AllLines(s)) : LStrip(AllLines(s)[i]) = ""

\* The mapping has plain keys and string values without blank lines.
PlainMapping(ds) ==
    \A i \in 1..Len(ds) :
        /\ ~StartsWith(ds[i].key, "CF_")
        /\ ds[i].value.kind = "str"
        /\ ~HasBlankLine(ds[i].value.s)

\* The mapping as a dict of strings.
AsFields(ds) == [i \in 1..Len(ds) |-> [key |-> ds[i].key, value |-> ds[i].value.s]]

\* C1: for every mapping with plain keys and string values that contain no
\* blank lines, parsing the text serialized returns a mapping with the same
\* keys in the same order and the same values.
C1_RoundTrip ==
    (step = "parsed" /\ parsed.expect_keys = <<>> /\ PlainMapping(data_source)) =>
        (parsed.error = "" /\ parsed.fields = AsFields(data_source))

\* The custom field of the mapping: its place, its name and its value.
CustomAt == CHOOSE i \in 1..Len(data_source) : StartsWith(data_source[i].key, "CF_")

CustomName == From(data_source[CustomAt].key, 3)

CustomValue == data_source[CustomAt].value.s

\* The line serialized for the custom field.
CustomLine == Split(post_data, "\n")[CustomAt]

\* The field parsed at the place of the custom field, if there is one.
ParsedCustom ==
    IF parsed.error = "" /\ Len(parsed.fields) >= CustomAt
      THEN parsed.fields[CustomAt]
      ELSE [key |-> "", value |-> ""]

\* The serializer's half of C18: the key CF_n is written as 'CF.{n}'.
WritesBraces ==
    step \in {"serialized", "parsed"} =>
        CustomLine = "CF.{" \o CustomName \o "}: " \o CustomValue

\* The parser's half of C18: the line gives the single key 'CF.{n}' with
\* the value v.
ParsesBraces ==
    ParsedCustom = [key |-> "CF.{" \o CustomName \o "}", value |-> CustomValue]

ReadAsStatusLine == CustomAt = 1 /\ StatusPattern(CustomLine)

RStrip(s) ==
    LET at == {i \in 1..Len(s) : Ch(s, i) \notin Whitespace}
    IN  IF at = {} THEN "" ELSE SubSeq(s, 1, Max(CHOOSE i \in at : \A j \in at : j <= i, 0))

\* s.strip() that strips nothing.
Strip_Mut(s) == s

Strip(s) == LStrip(RStrip(s))

\* s.rstrip(',') taking one comma only.
RStripCommas_Mut(s) == IF EndsWith(s, ",") THEN SubSeq(s, 1, Len(s) - 1) ELSE s

\* s.rstrip(','): every trailing comma goes.
RStripCommas(s) ==
    LET at == {i \in 1..Len(s) : Ch(s, i) # ","}
    IN  IF at = {} THEN "" ELSE SubSeq(s, 1, CHOOSE i \in at : \A j \in at : j <= i)

\* s.split(): the runs of characters that are no whitespace.
RECURSIVE SplitWhitespace(_)
SplitWhitespace(s) ==
    LET t == LStrip(s)
        at == {i \in 1..Len(t) : Ch(t, i) \in Whitespace}
    IN  IF t = "" THEN <<>>
        ELSE IF at = {} THEN <<t>>
        ELSE <<SubSeq(t, 1, Min(at) - 1)>> \o SplitWhitespace(From(t, Min(at)))

\* The characters of \w that the model's lines can hold.
WordChars ==
    {"a", "b", "c", "d", "e", "f", "g", "h", "i", "j", "k", "l", "m", "n", "o", "p", "q",
     "r", "s", "t", "u", "v", "w", "x", "y", "z", "_",
     "A", "B", "C", "D", "E", "F", "G", "H", "I", "J", "K", "L", "M", "N", "O", "P", "Q",
     "R", "S", "T", "U", "V", "W", "X", "Y", "Z"} \cup Digits

\* RE_PATTERNS['does_not_exist_pattern'].match(line):
\* ^# (?:Queue|User|Ticket) \w* does not exist\.$
DoesNotExistPattern(line) ==
    \E kind \in {"Queue", "User", "Ticket"} :
        LET lead == "# " \o kind \o " "
            tail == " does not exist."
        IN  /\ Len(line) >= Len(lead) + Len(tail)
            /\ StartsWith(line, lead)
            /\ EndsWith(line, tail)
            /\ \A i \in (Len(lead) + 1)..(Len(line) - Len(tail)) : Ch(line, i) \in WordChars

\* The value of a decimal digit.
DigitValue(c) ==
    CASE c = "0" -> 0 [] c = "1" -> 1 [] c = "2" -> 2 [] c = "3" -> 3 [] c = "4" -> 4
      [] c = "5" -> 5 [] c = "6" -> 6 [] c = "7" -> 7 [] c = "8" -> 8 [] c = "9" -> 9

\* What __get_status_code returns for None.
NoStatusCode == -1

\* int(s) for a string of digits.
RECURSIVE IntOf(_)
IntOf(s) ==
    IF s = "" THEN 0
    ELSE 10 * IntOf(SubSeq(s, 1, Len(s) - 1)) + DigitValue(Ch(s, Len(s)))

\* int(word) of Python for a text of ASCII: whitespace around the literal
\* is stripped, a sign may lead, and single underscores may stand between
\* digits.  ok is false where int() raises ValueError.
IntLiteral(word) ==
    LET w == Strip(word)
        signed == w # "" /\ Ch(w, 1) \in {"+", "-"}
        body == IF signed THEN From(w, 1) ELSE w
        digits == SelectSeq([i \in 1..Len(body) |-> Ch(body, i)], LAMBDA c : c \in Digits)
    IN  IF /\ body # ""
           /\ \A i \in 1..Len(body) : Ch(body, i) \in Digits \cup {"_"}
           /\ Ch(body, 1) \in Digits
           /\ Ch(body, Len(body)) \in Digits
           /\ Find(body, "__") = 0
          THEN [ok |-> TRUE,
                value |-> (IF signed /\ Ch(w, 1) = "-" THEN -1 ELSE 1) * IntOf(Join(digits, ""))]
          ELSE [ok |-> FALSE, value |-> 0]

\* Lines 248-251 that ask for a third word, the text after the code.
StatusWord_Mut(m) ==
    LET words == Split(Split(m, "\n")[1], " ")
    IN  IF Len(words) < 3 THEN [ok |-> FALSE, value |-> 0] ELSE IntLiteral(words[2])

\* Lines 248-251: int() of the second word of the first line; ok is false
\* when there is no second word (LookupError) or it is no number
\* (ValueError), where the method returns None.
StatusWord(m) ==
    LET words == Split(Split(m, "\n")[1], " ")
    IN  IF Len(words) < 2 THEN [ok |-> FALSE, value |-> 0] ELSE IntLiteral(words[2])

\* Rt.__get_status_code, with NoStatusCode for None (no text of the
\* specifications that use it holds a negative code).
GetStatusCode(m) == IF StatusWord(m).ok THEN StatusWord(m).value ELSE NoStatusCode

\* The text of a status code in a message: str(None) is 'None'.
StatusCodeText(code) == IF code = NoStatusCode THEN "None" ELSE ToString(code)

\* Rt.__normalize_list without the test of lines 282-283.
NormalizeList_Mut(m) ==
    LET parts == Split(m, ",") IN [i \in 1..Len(parts) |-> Strip(parts[i])]

\* Rt.__normalize_list on a string.
NormalizeList(m) ==
    IF m = "" THEN <<>>
    ELSE LET parts == Split(m, ",") IN [i \in 1..Len(parts) |-> Strip(parts[i])]

\* What a method returns or raises.
RetNone == [kind |-> "None", error |-> "", message |-> "", fields |-> <<>>, content |-> ""]

RetDict(fields) ==
    [kind |-> "dict", error |-> "", message |-> "", fields |-> fields, content |-> ""]

RetRaise(error, message) ==
    [kind |-> "raise", error |-> error, message |-> message, fields |-> <<>>, content |-> ""]

\* dict.get(key, '') of a parsed block.
GetOrEmpty(d, k) == IF k \in DictKeys(d) THEN DictGet(d, k) ELSE ""

\* The values of a parsed block as values of a record.
AsStrings(d) == [i \in 1..Len(d) |-> [key |-> d[i].key, value |-> Str(d[i].value)]]

\* Lines 379-383: the people fields that are present become lists.
PeopleFields == {"Requestors", "Cc", "AdminCc"}

NormalizePeople(d) ==
    [i \in 1..Len(d) |->
        IF d[i].key \in PeopleFields
          THEN [key |-> d[i].key, value |-> List(NormalizeList(d[i].value.s))]
          ELSE d[i]]

\* Rt.__parse_response_ticket.
ParseResponseTicket(lines) ==
    LET pairs == ParseResponseLines(lines, <<"Requestors">>)
    IN  IF pairs.error # "" THEN RetRaise(pairs.error, pairs.message)
        ELSE IF ~StartsWith(GetOrEmpty(pairs.fields, "id"), "ticket/")
          THEN RetRaise("UnexpectedMessageFormatError",
                        "Response from RT didn't contain a valid ticket_id")
        ELSE LET numerical_id == Partition(DictGet(pairs.fields, "id"), "/")[3]
                 ticket == DictSet(AsStrings(pairs.fields), "numerical_id", Str(numerical_id))
             IN  RetDict(NormalizePeople(ticket))

\* Lines 627 and 639 and their like: the status code is 200, or the error
\* raised.
StatusError(code) ==
    RetRaise("UnexpectedMessageFormatError",
             "Received status code is " \o StatusCodeText(code) \o " instead of 200.")

\* Rt.get_ticket on the text __request returned.
GetTicket(m) ==
    LET lines == Split(m, "\n")
    IN  IF GetStatusCode(m) # 200 THEN StatusError(GetStatusCode(m))
        ELSE IF Len(lines) > 2 /\ DoesNotExistPattern(lines[3]) THEN RetNone
        ELSE ParseResponseTicket(lines)

\* Rt.get_user and Rt.get_queue on the text __request returned.
GetUser(m) ==
    LET lines == Split(m, "\n")
        parsed_block == ParseResponseLines(lines, <<>>)
    IN  IF GetStatusCode(lines[1]) # 200 THEN StatusError(GetStatusCode(lines[1]))
        ELSE IF Len(lines) > 2 /\ DoesNotExistPattern(lines[3]) THEN RetNone
        ELSE IF parsed_block.error # "" THEN RetRaise(parsed_block.error, parsed_block.message)
        ELSE RetDict(AsStrings(parsed_block.fields))

GetQueue(m) == GetUser(m)

\* Line 1295: the links of one value.
Links(links) ==
    LET items == SplitWhitespace(links)
    IN  [i \in 1..Len(items) |-> RStripCommas(items[i])]

\* Rt.get_links on the text __request returned.  Line 1292 tests the
\* length of the text, not of its lines: lines[2] raises IndexError for a
\* text of more than two characters and fewer than three lines.
GetLinks(m) ==
    LET lines == Split(m, "\n")
        pairs == ParseResponseLines(lines, <<>>)
    IN  IF GetStatusCode(lines[1]) # 200 THEN StatusError(GetStatusCode(lines[1]))
        ELSE IF Len(m) > 2 /\ Len(lines) < 3
          THEN RetRaise("IndexError", "list index out of range")
        ELSE IF Len(m) > 2 /\ DoesNotExistPattern(lines[3]) THEN RetNone
        ELSE IF pairs.error # "" THEN RetRaise(pairs.error, pairs.message)
        ELSE RetDict([i \in 1..Len(pairs.fields) |->
                        [key |-> pairs.fields[i].key,
                         value |-> List(Links(pairs.fields[i].value))]])

\* The largest number of lines of a block after the status line and the
\* empty line that follows it.
MaxBlock == 3

\* The first line of the text.
StatusLines == {"RT/4.0.7 200 Ok", "RT/4.0.7 500 Error", ""}

\* The not-found markers of the server, for numeric and for other
\* identifiers.
Markers ==
    {"# User 5 does not exist.", "# User john.doe does not exist.",
     "# Queue General does not exist."}

\* The lines of a ticket, of a user or queue, and of the links of a ticket.
TicketLines ==
    {"# Ticket 5 does not exist.", "id: ticket/5", "id: ticket/x", "id: 5", "Subject: s",
     "Requestors: a@example.com", "Requestors: a@example.com,", "            b@example.com",
     "Requestors: ", "Cc:", "AdminCc: "}

UserLines == Markers \cup {"id: user/5", "Name: john", "Comments:", ""}

LinkLines ==
    {"# Ticket 5 does not exist.", "id: ticket/5/links", "Members: t/1, t/2,, t/3,", "MemberOf: t/1,",
     "         t/4", "RefersTo:", ""}

\* The blocks of n lines of a pool, and of at most n.
RECURSIVE BlocksOfLen(_, _)
BlocksOfLen(pool, n) ==
    IF n = 0 THEN {<<>>} ELSE {Append(b, l) : b \in BlocksOfLen(pool, n - 1), l \in pool}

Blocks(pool, n) == UNION {BlocksOfLen(pool, k) : k \in 0..n}

\* The texts of a response: the status line alone, or the status line, an
\* empty line and a block.
Texts(pool) ==
    StatusLines
    \cup {Join(<<st, "">> \o b, "\n") : st \in StatusLines, b \in Blocks(pool, MaxBlock)}

\* __request returns the text only when __check_response raises nothing.
Returned(m) == CheckResponse1(Split(m, "\n")).kind = "return"

\* A call of get_ticket, given the text __request returns to it.
CallGetTicket ==
    /\ UNCHANGED <<pagedVars, requestVars, roundTripVars, sessionVars, callVars>>
    /\ rec_ret = NoRet
    /\ \E m \in Texts(TicketLines) :
         /\ Returned(m)
         /\ rec_op' = "get_ticket"
         /\ rec_msg' = m
         /\ rec_ret' = GetTicket(m)

\* A call of get_user.
CallGetUser ==
    /\ UNCHANGED <<pagedVars, requestVars, roundTripVars, sessionVars, callVars>>
    /\ rec_ret = NoRet
    /\ \E m \in Texts(UserLines) :
         /\ Returned(m)
         /\ rec_op' = "get_user"
         /\ rec_msg' = m
         /\ rec_ret' = GetUser(m)

\* A call of get_queue.
CallGetQueue ==
    /\ UNCHANGED <<pagedVars, requestVars, roundTripVars, sessionVars, callVars>>
    /\ rec_ret = NoRet
    /\ \E m \in Texts(UserLines) :
         /\ Returned(m)
         /\ rec_op' = "get_queue"
         /\ rec_msg' = m
         /\ rec_ret' = GetQueue(m)

\* A call of get_links.
CallGetLinks ==
    /\ UNCHANGED <<pagedVars, requestVars, roundTripVars, sessionVars, callVars>>
    /\ rec_ret = NoRet
    /\ \E m \in Texts(LinkLines) :
         /\ Returned(m)
         /\ rec_op' = "get_links"
         /\ rec_msg' = m
         /\ rec_ret' = GetLinks(m)

\* The caller has taken the result and goes on to its next call.
NextRecord ==
    /\ UNCHANGED <<pagedVars, requestVars, roundTripVars, sessionVars, callVars>>
    /\ rec_ret # NoRet
    /\ rec_op' = ""
    /\ rec_msg' = ""
    /\ rec_ret' = NoRet

InitRecords ==
    /\ IdlePaged
    /\ IdleRequest
    /\ IdleRoundTrip
    /\ IdleRecords
    /\ IdleSession
    /\ IdleCalls

NextRecords ==
    \/ CallGetTicket
    \/ CallGetUser
    \/ CallGetQueue
    \/ CallGetLinks
    \/ NextRecord

SpecRecords == InitRecords /\ [][NextRecords]_vars

\* ------------------------------------------------------------------------
\* Properties of the record assemblers.
\* ------------------------------------------------------------------------
\* The lines of the text the method was given.
RecLines == Split(rec_msg, "\n")

\* A line '# Ticket|User|Queue X does not exist.', whatever X is.
IsMarker(line) ==
    \E kind \in {"Queue", "User", "Ticket"} :
        /\ StartsWith(line, "# " \o kind \o " ")
        /\ EndsWith(line, " does not exist.")
        /\ Len(line) >= Len("# " \o kind \o " ") + Len(" does not exist.")

\* C11: for get_ticket, get_user, get_queue and get_links, when the status
\* line has code 200 and the third line is the marker '# Ticket|User|Queue
\* X does not exist.' for any identifier X, the method returns None: it
\* raises nothing and returns no record.
C11_NotFoundIsNone ==
    (/\ rec_op \in {"get_ticket", "get_user", "get_queue", "get_links"}
     /\ GetStatusCode(rec_msg) = 200
     /\ Len(RecLines) > 2
     /\ IsMarker(RecLines[3]))
    => rec_ret = RetNone

\* get_ticket handed the text to __parse_response_ticket.
ReachedTicketParser ==
    /\ rec_op = "get_ticket"
    /\ GetStatusCode(rec_msg) = 200
    /\ ~(Len(RecLines) > 2 /\ DoesNotExistPattern(RecLines[3]))

\* The place of the line that holds `sub`.
Contains(line, sub) == Find(line, sub) > 0

TicketValue(key) == DictGet(rec_ret.fields, key)

\* The block is the id, the given Requestors line and one continuation
\* line of 12 spaces and b@example.com.
TwoRequestors(first) ==
    /\ rec_op = "get_ticket"
    /\ RecLines = <<"RT/4.0.7 200 Ok", "", "id: ticket/5", first, "            b@example.com">>

\* C13 as claimed: the block 'Requestors: a@example.com' followed by the
\* line of 12 spaces and 'b@example.com' gives Requestors =
\* ['a@example.com', 'b@example.com'].
C13_ContinuationSplits ==
    TwoRequestors("Requestors: a@example.com") =>
        (/\ rec_ret.kind = "dict"
         /\ TicketValue("Requestors") = List(<<"a@example.com", "b@example.com">>))

\* C13 as amended: the Requestors value is split at its commas only.  The
\* block 'Requestors: a@example.com,' (with the comma) followed by the
\* line of 12 spaces and 'b@example.com' gives ['a@example.com',
\* 'b@example.com'], each element trimmed; without the comma the two lines
\* are one element, 'a@example.com\nb@example.com'.
C13_CommaSplits ==
    /\ TwoRequestors("Requestors: a@example.com,") =>
         (/\ rec_ret.kind = "dict"
          /\ TicketValue("Requestors") = List(<<"a@example.com", "b@example.com">>))
    /\ TwoRequestors("Requestors: a@example.com") =>
         (/\ rec_ret.kind = "dict"
          /\ TicketValue("Requestors") = List(<<"a@example.com\nb@example.com">>))

\* C13 witness: the block with the comma was assembled.
C13_Witness ==
    /\ TwoRequestors("Requestors: a@example.com,")
    /\ TicketValue("Requestors") = List(<<"a@example.com", "b@example.com">>)

\* The people field `key` is in the block once, with an empty value: its
\* line is 'key:' or 'key: ' and no continuation line follows it.
EmptyPeopleField(key) ==
    \E i \in 3..Len(RecLines) :
        /\ RecLines[i] \in {key \o ":", key \o ": "}
        /\ \A j \in 1..Len(RecLines) : StartsWith(RecLines[j], key \o ":") => j = i
        /\ i < Len(RecLines) => ~(RecLines[i + 1] # "" /\ Ch(RecLines[i + 1], 1) \in Whitespace)

\* C14: for each of Requestors, Cc and AdminCc that is in the ticket block
\* with an empty value ('Cc:' or 'Cc: '), get_ticket returns the empty
\* list for that field, not [''] and not the empty string.
C14_EmptyPeopleIsEmptyList ==
    \A key \in PeopleFields :
        (rec_op = "get_ticket" /\ rec_ret.kind = "dict" /\ EmptyPeopleField(key)) =>
            TicketValue(key) = List(<<>>)

\* C14 witness: a ticket with 'Requestors: ' and 'Cc:' was read.
C14_Witness ==
    /\ rec_op = "get_ticket"
    /\ rec_ret.kind = "dict"
    /\ EmptyPeopleField("Requestors")
    /\ EmptyPeopleField("Cc")
    /\ TicketValue("Requestors") = List(<<>>)
    /\ TicketValue("Cc") = List(<<>>)

\* A text of the form 'ticket/<n>' with <n> a number.
IsTicketId(id) ==
    /\ StartsWith(id, "ticket/")
    /\ Len(id) > Len("ticket/")
    /\ \A i \in Len("ticket/") + 1..Len(id) : Ch(id, i) \in Digits

\* C28: the ticket assembler fails when the id field is absent or is not of
\* the form 'ticket/<n>' with <n> a number, so that a ticket it returns has
\* such an id; and numerical_id of a returned ticket is exactly the <n> part
\* of its id.
C28_TicketIdIsNumbered ==
    (rec_op = "get_ticket" /\ rec_ret.kind = "dict") =>
        /\ "id" \in DictKeys(rec_ret.fields)
        /\ IsTicketId(TicketValue("id").s)
        /\ TicketValue("numerical_id") = Str(From(TicketValue("id").s, Len("ticket/")))

\* The links block get_links parsed.
LinkPairs == ParseResponseLines(RecLines, <<>>).fields

\* `s` without one trailing comma, if it has one.
WithoutOneComma(s) == IF EndsWith(s, ",") THEN SubSeq(s, 1, Len(s) - 1) ELSE s

\* C19 as claimed: each value of the links block is split on whitespace
\* runs, exactly one trailing comma is stripped from every item but the
\* last, and the last item is returned unchanged.
C19_OneCommaButLast ==
    (rec_op = "get_links" /\ rec_ret.kind = "dict") =>
        \A k \in 1..Len(LinkPairs) :
            LET items == SplitWhitespace(LinkPairs[k].value)
                links == rec_ret.fields[k].value.items
            IN  /\ Len(links) = Len(items)
                /\ \A i \in 1..Len(items) :
                     links[i] = IF i < Len(items) THEN WithoutOneComma(items[i]) ELSE items[i]

\* C19 as amended: each value of the links block is split on whitespace
\* runs and every trailing comma is stripped from every item, the last
\* item included: no item returned ends with a comma, and each item of
\* the block is the item returned followed by commas only.
C19_AllCommasEveryItem ==
    (rec_op = "get_links" /\ rec_ret.kind = "dict") =>
        /\ Len(rec_ret.fields) = Len(LinkPairs)
        /\ \A k \in 1..Len(LinkPairs) :
            LET items == SplitWhitespace(LinkPairs[k].value)
                links == rec_ret.fields[k].value.items
            IN  /\ rec_ret.fields[k].key = LinkPairs[k].key
                /\ Len(links) = Len(items)
                /\ \A i \in 1..Len(items) :
                     /\ ~EndsWith(links[i], ",")
                     /\ IsPrefix(links[i], items[i])
                     /\ \A j \in (Len(links[i]) + 1)..Len(items[i]) : Ch(items[i], j) = ","

\* C19 witness: 'Members: t/1, t/2,, t/3,' was read as t/1, t/2, t/3.
C19_Witness ==
    /\ rec_op = "get_links"
    /\ rec_ret.kind = "dict"
    /\ \E k \in 1..Len(rec_ret.fields) :
         /\ LinkPairs[k].value = "t/1, t/2,, t/3,"
         /\ rec_ret.fields[k].value = List(<<"t/1", "t/2", "t/3">>)

\* ========================================================================
\* REST 1: Rt.get_history (src/rt/rest1.py)
\* ========================================================================

\* The pad of nine spaces that RT puts before the lines of a value.
NineSpaces == "         "

\* RE_PATTERNS['not_related_pattern'].match(line):
\* ^# Transaction \d+ is not related to Ticket \d+
NotRelatedPattern(line) ==
    LET lead == "# Transaction "
        mid == " is not related to Ticket "
        at == Find(line, mid)
    IN  /\ StartsWith(line, lead)
        /\ at > Len(lead) + 1
        /\ \A i \in (Len(lead) + 1)..(at - 1) : Ch(line, i) \in Digits
        /\ Len(line) >= at + Len(mid)
        /\ Ch(line, at + Len(mid)) \in Digits

\* A list of (id, description) pairs as a value of a record.
Pairs(items) == [kind |-> "pairs", s |-> "", items |-> items]

\* sorted() of pairs whose ids differ: the pair of the smallest id first.
RECURSIVE SortedPairs(_)
SortedPairs(pairs) ==
    IF pairs = <<>> THEN <<>>
    ELSE LET least == CHOOSE i \in 1..Len(pairs) : \A j \in 1..Len(pairs) : pairs[i][1] <= pairs[j][1]
         IN  <<pairs[least]>>
             \o SortedPairs([k \in 1..(Len(pairs) - 1) |-> IF k < least THEN pairs[k] ELSE pairs[k + 1]])

\* Lines 355-359 of Rt.__parse_response_numlist, given what
\* __parse_response_dict made of the string: the error raised ("" for none;
\* int() of a key that is no number raises ValueError) and the sorted list.
NumlistOf(d) ==
    LET numeric(k) == k # "" /\ \A i \in 1..Len(k) : Ch(k, i) \in Digits
        keys == [i \in 1..Len(d.fields) |-> Strip(d.fields[i].key)]
    IN  IF d.error # "" THEN [error |-> d.error, message |-> d.message, items |-> <<>>]
        ELSE IF \E i \in 1..Len(keys) : ~numeric(keys[i])
          THEN [error |-> "ValueError", message |-> "invalid literal for int()", items |-> <<>>]
        ELSE [error |-> "", message |-> "",
              items |-> SortedPairs([i \in 1..Len(keys) |-> <<IntOf(keys[i]), d.fields[i].value>>])]

\* Rt.__parse_response_numlist on a string.
ParseResponseNumlist(m) == NumlistOf(ParseResponseDict(m, <<>>))

\* What get_history returns: a list of items.
RetList(items) ==
    [kind |-> "list", error |-> "", message |-> "", fields |-> items, content |-> ""]

\* Lines 784-788 of get_history, given the parsed items and the lists of
\* their attachments: the first error of a list is raised, else every item
\* gets its list.
WithAttachments(items, lists) ==
    LET bad == {i \in 1..Len(lists) : lists[i].error # ""}
    IN  IF bad # {} THEN RetRaise(lists[Min(bad)].error, lists[Min(bad)].message)
        ELSE RetList([i \in 1..Len(items) |->
                        DictSet(AsStrings(items[i].fields), "Attachments", Pairs(lists[i].items))])

\* Lines 782-788 of get_history, given what __parse_response_dict made of
\* each item: the first error of an item is raised before any list of
\* attachments is parsed.
HistoryItems(items) ==
    LET bad == {i \in 1..Len(items) : items[i].error # ""}
    IN  IF bad # {} THEN RetRaise(items[Min(bad)].error, items[Min(bad)].message)
        ELSE WithAttachments(items,
                 [i \in 1..Len(items) |-> ParseResponseNumlist(GetOrEmpty(items[i].fields, "Attachments"))])

\* The items of a history text, each parsed by __parse_response_dict.
ParsedItems(texts) ==
    [i \in 1..Len(texts) |-> ParseResponseDict(texts[i], <<"Content", "Attachments">>)]

\* Lines 778-781 of get_history, given the lines of the text.
NoHistory(lines) ==
    Len(lines) > 2 /\ (DoesNotExistPattern(lines[3]) \/ NotRelatedPattern(lines[3]))

\* Rt.get_history on the text __request returned.
GetHistory(msgs) ==
    IF NoHistory(Split(msgs, "\n")) THEN RetNone
    ELSE HistoryItems(ParsedItems(Split(msgs, "\n--\n")))

\* The start of the Content section of an item, the lines that may follow
\* it, and the rest of the item.
ContentHeads == {<<"id: 114", "Content: line one">>, <<"Content:">>, <<"id: 114">>}

ContentLines == {"         line two", "            deep", " x", "         ", ""}

ItemTails ==
    {<<"Content-Type: text/plain", "Attachments: ">>,
     <<"Attachments: ", "             17: untitled (38b)", "             3: a.txt (1k)">>,
     <<"Attachments: ", "             x: untitled (38b)">>,
     <<"Content-Type: text/plain">>}

\* The lines before the first item, and an item that may follow it.
HistoryLeads ==
    {<<"RT/4.0.7 200 Ok", "">>, <<"RT/4.0.7 200 Ok", "", "# 2/2 (id/114/total)", "">>,
     <<"RT/4.0.7 200 Ok", "", "# Transaction 7 is not related to Ticket 5">>}

MoreItems == {<<>>, <<"--", "", "# 2/2 (id/115/total)", "", "id: 115", "Content: two", "Attachments: ">>}

\* The texts of a history: the lead, an item made of a head, at most n lines
\* of content and a tail, and the items after it.
HistoryTexts(n) ==
    {Join(lead \o head \o content \o rest \o more, "\n") :
        lead \in HistoryLeads, head \in ContentHeads, content \in Blocks(ContentLines, n),
        rest \in ItemTails, more \in MoreItems}

\* A call of get_history.
CallGetHistory ==
    /\ UNCHANGED <<pagedVars, requestVars, roundTripVars, sessionVars, callVars>>
    /\ rec_ret = NoRet
    /\ \E m \in HistoryTexts(MaxBlock) :
         /\ Returned(m)
         /\ rec_op' = "get_history"
         /\ rec_msg' = m
         /\ rec_ret' = GetHistory(m)

NextHistory == CallGetHistory \/ NextRecord

SpecHistory == InitRecords /\ [][NextHistory]_vars

\* ------------------------------------------------------------------------
\* Properties of get_history.
\* ------------------------------------------------------------------------
\* The place of the first 'Content:' marker line among the lines, 0 for
\* none.
ContentAt(lines) ==
    LET at == {i \in 1..Len(lines) : StartsWith(lines[i], "Content:")}
    IN  IF at = {} THEN 0 ELSE Min(at)

\* The lines after place i that begin with nine spaces, up to the first
\* line that does not, each without those nine characters.
RECURSIVE IndentedRun(_, _)
IndentedRun(lines, i) ==
    IF i < Len(lines) /\ StartsWith(lines[i + 1], NineSpaces)
      THEN <<From(lines[i + 1], 9)>> \o IndentedRun(lines, i + 1)
      ELSE <<>>

\* The Content value as the fixed-width rule gives it: the text of the
\* marker line after 'Content:' and its pad, and the run of indented lines.
FixedWidthContent(lines) ==
    Join(<<From(lines[ContentAt(lines)], 9)>> \o IndentedRun(lines, ContentAt(lines)), "\n")

\* C15: in a history entry the Content value is the text after the
\* 'Content:' marker on its line followed by every subsequent line whose
\* first 9 characters are spaces, each with exactly those 9 characters
\* removed (deeper indentation is kept), joined by newline; the first line
\* that is not indented ends the section.
C15_NineColumnContent ==
    (rec_op = "get_history" /\ rec_ret.kind = "list" /\ StartsWith(RecLines[ContentAt(RecLines)], "Content: ")) =>
        DictGet(rec_ret.fields[1], "Content") = Str(FixedWidthContent(RecLines))

\* ========================================================================
\* REST 1: Rt.get_attachment and Rt.get_attachment_content (src/rt/rest1.py)
\* ========================================================================
\* Both methods read the bytes of the response (text_response=False).  A
\* byte string is a string here; BadByte stands for a byte that no UTF-8
\* text holds (0xFF), so that decode('utf-8') raises on it.
BadByte == "~"

Decodes(b) == Find(b, BadByte) = 0

\* RE_PATTERNS['invalid_attachment_pattern_bytes'].match(line):
\* ^# Invalid attachment id: \d+$
InvalidAttachmentPattern(line) ==
    LET lead == "# Invalid attachment id: "
    IN  /\ StartsWith(line, lead)
        /\ Len(line) > Len(lead)
        /\ \A i \in (Len(lead) + 1)..Len(line) : Ch(line, i) \in Digits

\* The test of lines 1008-1010 and of lines 1062-1064 on the third line.
NoAttachment(line) == InvalidAttachmentPattern(line) \/ DoesNotExistPattern(line)

\* The place of the first line that pattern.match accepts, 0 for none.
FirstMatch(msg, marker) ==
    LET at == {i \in 1..Len(msg) : StartsWith(msg[i], marker)}
    IN  IF at = {} THEN 0 ELSE Min(at)

\* re.sub(b'^Headers: (.*)$', rb'\1', line)
WithoutHeadersPrefix(line) == IF StartsWith(line, "Headers: ") THEN From(line, 9) ELSE line

\* A dict and a byte string as values of a record.
Dict(fields) == [kind |-> "dict", s |-> "", items |-> fields]

Bytes(b) == [kind |-> "bytes", s |-> b, items |-> <<>>]

\* The loops of lines 1024-1027 and 1029-1032 over the lines lo..hi: a line
\* that holds ': ' gives a key and a value, both stripped.
RECURSIVE HeaderPairs(_, _, _)
HeaderPairs(msg, lo, hi) ==
    IF hi < lo THEN <<>>
    ELSE LET parts == Partition(msg[hi], ": ")
         IN  IF parts[2] = "" THEN HeaderPairs(msg, lo, hi - 1)
             ELSE DictSet(HeaderPairs(msg, lo, hi - 1), Strip(parts[1]), Str(Strip(parts[3])))

\* A line of those loops on which decode('utf-8') raises.
Undecodable(line) == Find(line, ": ") > 0 /\ ~Decodes(line)

\* Lines 1035-1037 that stop at the first line without the nine spaces.
RECURSIVE Payload_Mut(_, _)
Payload_Mut(msg, i) ==
    IF i > Len(msg) \/ ~StartsWith(msg[i], NineSpaces) THEN ""
    ELSE "\n" \o From(msg[i], 9) \o Payload_Mut(msg, i + 1)

\* Lines 1035-1037: every line after place i that begins with nine spaces,
\* without them, each after a newline byte.
RECURSIVE Payload(_, _)
Payload(msg, i) ==
    IF i > Len(msg) THEN ""
    ELSE (IF StartsWith(msg[i], NineSpaces) THEN "\n" \o From(msg[i], 9) ELSE "")
         \o Payload(msg, i + 1)

\* Lines 1018-1039, given the lines with the Headers line rewritten and the
\* places of the two markers (head_id + 1 and cont_id + 1).
AttachmentPairs(msg, head, cont) ==
    IF cont = 0
      THEN RetRaise("UnexpectedMessageFormatError",
                    "Unexpected content part of attachment entry. Missing line starting with Content:.")
    ELSE IF \E i \in 1..Max(head - 1, cont - 1) : Undecodable(msg[i])
      THEN RetRaise("UnicodeDecodeError", "")
    ELSE RetDict(DictSet(DictSet(HeaderPairs(msg, 1, head - 1),
                                 "Headers", Dict(HeaderPairs(msg, head, cont - 1))),
                         "Content", Bytes(From(msg[cont], 9) \o Payload(msg, cont + 1))))

\* Lines 1012-1017, given msg[2:] and the place of the Headers line: no
\* such line, or that line first, raises.
WithHeaders(msg, head) ==
    IF head <= 1
      THEN RetRaise("UnexpectedMessageFormatError",
                    "Unexpected headers part of attachment entry. Missing line starting with Headers:.")
    ELSE AttachmentPairs([msg EXCEPT ![head] = WithoutHeadersPrefix(@)], head,
                         FirstMatch([msg EXCEPT ![head] = WithoutHeadersPrefix(@)], "Content:"))

\* lines[2:]
AfterTwo(lines) == IF Len(lines) <= 2 THEN <<>> ELSE SubSeq(lines, 3, Len(lines))

\* Rt.get_attachment on the bytes __request returned.
GetAttachment(m) ==
    IF Len(Split(m, "\n")) > 2 /\ NoAttachment(Split(m, "\n")[3]) THEN RetNone
    ELSE WithHeaders(AfterTwo(Split(m, "\n")), FirstMatch(AfterTwo(Split(m, "\n")), "Headers:"))

\* What get_attachment_content returns: bytes.
RetBytes(b) == [kind |-> "bytes", error |-> "", message |-> "", fields |-> <<>>, content |-> b]

\* msg[msg.find(b'\n') + 2:-3], the slice of src/rt/rt.py.
ContentSlice_Mut(m) == SubSeq(m, Find(m, "\n") + 2, Len(m) - 3)

\* msg[msg.find(b'\n') + 2:]
ContentSlice(m) == From(m, Find(m, "\n") + 1)

\* Rt.get_attachment_content on the bytes __request returned;
\* msg.split(b'\n', 3) has four parts when the bytes hold three newlines.
GetAttachmentContent(m) ==
    IF Len(Split(m, "\n")) >= 4 /\ NoAttachment(Split(m, "\n")[3]) THEN RetNone
    ELSE RetBytes(ContentSlice(m))

\* The lines of an attachment entry before the Content section, the marker
\* line, and the lines that may follow it.
AttachmentHeads ==
    {<<"id: 17", "Subject: ", "Headers: MIME-Version: 1.0", "         X-Tag: a">>,
     <<"id: 17", "Headers: MIME-Version: 1.0">>,
     <<"id: 17", "Headers: Content: h">>,
     <<"id: 17", "Creator: ~: x", "Headers: a: b">>,
     <<"Headers: X: 1">>,
     <<"id: 17">>,
     <<"# Invalid attachment id: 17">>,
     <<"# Ticket 5 does not exist.">>}

ContentMarkers == {<<"Content: begin~">>, <<"Content:">>, <<>>}

PayloadLines ==
    {"         Content: fake", "Content: late", "         ~PNG", "Headers: late: ~", "        short", ""}

AttachmentTexts(n) ==
    {Join(<<"RT/4.0.7 200 Ok", "">> \o head \o marker \o payload, "\n") :
        head \in AttachmentHeads, marker \in ContentMarkers, payload \in Blocks(PayloadLines, n)}

\* The bytes of an uploaded attachment, of at most n lines, and the texts
\* of a content response: with and without the padding of three newlines.
UploadLines == {"~PNG", "", "# Invalid attachment id: 17", "# Ticket 5 does not exist.", "abc"}

Uploads(n) == {Join(b, "\n") : b \in Blocks(UploadLines, n) \ {<<>>}}

ContentTexts(n) ==
    {st \o "\n\n" \o content \o pad :
        st \in StatusLines \ {""}, content \in Uploads(n), pad \in {"\n\n\n", ""}}

\* A call of get_attachment.
CallGetAttachment ==
    /\ UNCHANGED <<pagedVars, requestVars, roundTripVars, sessionVars, callVars>>
    /\ rec_ret = NoRet
    /\ \E m \in AttachmentTexts(MaxBlock) :
         /\ Returned(m)
         /\ rec_op' = "get_attachment"
         /\ rec_msg' = m
         /\ rec_ret' = GetAttachment(m)

\* A call of get_attachment_content.
CallGetAttachmentContent ==
    /\ UNCHANGED <<pagedVars, requestVars, roundTripVars, sessionVars, callVars>>
    /\ rec_ret = NoRet
    /\ \E m \in ContentTexts(MaxBlock) :
         /\ Returned(m)
         /\ rec_op' = "get_attachment_content"
         /\ rec_msg' = m
         /\ rec_ret' = GetAttachmentContent(m)

NextAttachments == CallGetAttachment \/ CallGetAttachmentContent \/ NextRecord

SpecAttachments == InitRecords /\ [][NextAttachments]_vars

\* ------------------------------------------------------------------------
\* Properties of get_attachment and get_attachment_content.
\* ------------------------------------------------------------------------
\* The lines of the attachment entry, after the status line and the empty
\* line.
EntryLines == IF Len(RecLines) <= 2 THEN <<>> ELSE SubSeq(RecLines, 3, Len(RecLines))

\* The place of the first line that begins with 'Content:', 0 for none.
MarkerAt(lines) ==
    LET at == {i \in 1..Len(lines) : StartsWith(lines[i], "Content:")}
    IN  IF at = {} THEN 0 ELSE CHOOSE i \in at : \A j \in at : i <= j

\* The lines after place i that begin with nine spaces, in their order,
\* each without those nine bytes.
RECURSIVE IndentedAfter(_, _)
IndentedAfter(lines, i) ==
    IF i >= Len(lines) THEN <<>>
    ELSE (IF StartsWith(lines[i + 1], NineSpaces) THEN <<From(lines[i + 1], 9)>> ELSE <<>>)
         \o IndentedAfter(lines, i + 1)

\* The Headers line carries a header that is itself named Content.
HeaderNamedContent(lines) == \E i \in 1..Len(lines) : StartsWith(lines[i], "Headers: Content:")

\* The Content value the lines give, with the marker at place c.
ContentFrom(lines, c) ==
    c > 0 /\ DictGet(rec_ret.fields, "Content")
               = Bytes(Join(<<From(lines[c], 9)>> \o IndentedAfter(lines, c), "\n"))

DocumentedForm ==
    /\ Find(rec_msg, "\n") > 1
    /\ Find(rec_msg, "\n\n") = Find(rec_msg, "\n")
    /\ Len(rec_msg) >= Find(rec_msg, "\n") + 4
    /\ EndsWith(rec_msg, "\n\n\n")

\* C17: for a response of the documented form get_attachment_content
\* returns exactly the content: no status line, no leading blank line and
\* no trailing newline padding.
C17_ExactlyContent ==
    (rec_op = "get_attachment_content" /\ DocumentedForm) =>
        /\ rec_ret.kind = "bytes"
        /\ rec_ret.content = SubSeq(rec_msg, Find(rec_msg, "\n") + 2, Len(rec_msg) - 3)

\* get_attachment raised the error that names a missing Headers line.
MissingHeadersRaised ==
    /\ rec_ret.kind = "raise"
    /\ rec_ret.error = "UnexpectedMessageFormatError"
    /\ Find(rec_ret.message, "Unexpected headers part") = 1

\* A line of the entry begins with 'Headers:'.
HasHeadersLine(lines) == \E i \in 1..Len(lines) : StartsWith(lines[i], "Headers:")

\* C30: get_attachment raises the 'missing Headers' error if and only if no
\* line after the two leading status lines starts with 'Headers:'; an entry
\* whose 'Headers:' line is the very first of those lines is parsed.  (An
\* entry the server reports as invalid or missing gives None and is left
\* aside.)
C30_MissingHeadersIff ==
    (rec_op = "get_attachment" /\ rec_ret.kind # "None") =>
        (MissingHeadersRaised <=> ~HasHeadersLine(EntryLines))

\* ========================================================================
\* REST 1: the session, Rt.login, Rt.logout and the calls between them
\* (src/rt/rest1.py)
\* ========================================================================
\* login_result is tested by 'not self.login_result' and by 'is True' only,
\* so that None and False are one value here.

\* What the server answers to a call of the session.
SessionResponses ==
    {[transport |-> "ConnectionError", status_code |-> 0, decode |-> "none", body |-> ""]}
    \cup [transport : {"ok"}, status_code : {200, 401, 500}, decode : {"ok"},
          body : {"RT/4.0.7 200 Ok", "RT/4.0.7 401 Credentials required", "RT/4.0.7 302 Found", ""}]

\* How login() calls __request, and how every other method does.
LoginRequest == [without_login |-> TRUE, text_response |-> TRUE]

MethodRequest == [without_login |-> FALSE, text_response |-> TRUE]

\* Lines 417-427: what login() returns for the outcome of its __request
\* ("raised" when the exception leaves login), and login_result after it.
LoginReturn(out) ==
    IF out.kind = "return" THEN (IF GetStatusCode(out.value) = 200 THEN "True" ELSE "False")
    ELSE IF out.error = "AuthorizationError" THEN "False"
    ELSE "raised"

LoginResult(before, out) ==
    IF out.kind = "return" THEN GetStatusCode(out.value) = 200 ELSE before

\* Rt.login with credentials (supplied, default, or of session.auth).
Login ==
    /\ UNCHANGED <<pagedVars, roundTripVars, recordVars, callVars>>
    /\ \E resp \in SessionResponses :
         /\ request' = LoginRequest
         /\ response' = resp
         /\ outcome' = Request1(login_result, LoginRequest, resp)
         /\ login_result' = LoginResult(login_result, Request1(login_result, LoginRequest, resp))
         /\ last_login' = LoginReturn(Request1(login_result, LoginRequest, resp))
    /\ api_method' = "login"

\* Rt.login without any credentials: line 416 raises before any request.
LoginWithoutCredentials ==
    /\ UNCHANGED <<pagedVars, roundTripVars, recordVars, callVars>>
    /\ request' = NoRequest
    /\ response' = NoResponse
    /\ outcome' = Raise("AuthorizationError", "Credentials required, fill login and password.")
    /\ last_login' = "raised"
    /\ api_method' = "login"
    /\ UNCHANGED login_result

\* Lines 438-440: what logout() returns for the outcome of its __request,
\* whose exception leaves logout.
LogoutReturn(out) ==
    IF out.kind = "raise" THEN out
    ELSE Return(IF GetStatusCode(out.value) = 200 THEN "True" ELSE "False")

\* Line 440 left out: login_result stays as it was.
LogoutResult_Mut(before, out) == before

\* Line 440: login_result is None once the request has returned.
LogoutResult(before, out) == IF out.kind = "raise" THEN before ELSE FALSE

\* Rt.logout: a request only when login_result is True.
Logout ==
    /\ UNCHANGED <<pagedVars, roundTripVars, recordVars, callVars>>
    /\ IF login_result
         THEN \E resp \in SessionResponses :
                /\ request' = MethodRequest
                /\ response' = resp
                /\ outcome' = LogoutReturn(Request1(login_result, MethodRequest, resp))
                /\ login_result' = LogoutResult(login_result, Request1(login_result, MethodRequest, resp))
         ELSE /\ request' = NoRequest
              /\ response' = NoResponse
              /\ outcome' = Return("False")
              /\ UNCHANGED login_result
    /\ api_method' = "logout"
    /\ UNCHANGED last_login

\* Any other method of the API (search, get_ticket, ...): its call of
\* __request, whose exception leaves the method.
ApiCall ==
    /\ UNCHANGED <<pagedVars, roundTripVars, recordVars, callVars>>
    /\ \E resp \in SessionResponses :
         /\ request' = MethodRequest
         /\ response' = IF Sends(login_result, MethodRequest) THEN resp ELSE NoResponse
         /\ outcome' = Request1(login_result, MethodRequest, resp)
    /\ api_method' = "call"
    /\ UNCHANGED <<login_result, last_login>>

\* Rt.__init__: login_result is None, or True with cookies, skip_login or
\* http_auth.
InitSession ==
    /\ IdlePaged
    /\ IdleRoundTrip
    /\ IdleRecords
    /\ IdleSession
    /\ IdleCalls
    /\ login_result \in BOOLEAN
    /\ request = NoRequest
    /\ response = NoResponse
    /\ outcome = NoOutcome

NextSession == Login \/ LoginWithoutCredentials \/ Logout \/ ApiCall

SpecSession == InitSession /\ [][NextSession]_vars

\* ------------------------------------------------------------------------
\* Properties of the session.
\* ------------------------------------------------------------------------
\* C20: after any sequence of operations, if the most recent login()
\* returned False then, until a later login() returns True, every other
\* API call raises AuthorizationError and sends nothing to the server.
C20_NoCallAfterFailedLogin ==
    (api_method = "call" /\ last_login = "False") =>
        /\ outcome.kind = "raise"
        /\ outcome.error = "AuthorizationError"
        /\ response = NoResponse

\* The first line of a body carries the status code 200.
AnswersOk(body) ==
    LET words == Split(Split(body, "\n")[1], " ")
    IN  Len(words) >= 2 /\ words[2] = "200"

\* A call that was refused before anything was sent.
Refused(out, resp) ==
    out.kind = "raise" /\ out.error = "AuthorizationError" /\ resp = NoResponse

\* C21: logout() on a client that is not logged in returns False without
\* contacting the server; on a logged-in client it returns True exactly
\* when the server answers the logout request with the status line code
\* 200; after logout() has returned, the client is logged out: every
\* further call raises AuthorizationError until a login() succeeds.
C21_LogoutEndsSession ==
    [][/\ (api_method' = "logout" /\ ~login_result) =>
              (outcome' = Return("False") /\ response' = NoResponse)
       /\ (api_method' = "logout" /\ login_result /\ outcome'.kind = "return") =>
              (outcome'.value = "True" <=> AnswersOk(response'.body))
       /\ (api_method' = "logout" /\ outcome'.kind = "return") => ~login_result'
       /\ (api_method' = "call" /\ ~login_result) => Refused(outcome', response')
       /\ (~login_result /\ login_result') => (api_method' = "login" /\ last_login' = "True")]_vars

\* A logout that the server answered with 200 returned True and left the
\* client logged out.
C21_Witness ==
    /\ api_method = "logout"
    /\ response.body = "RT/4.0.7 200 Ok"
    /\ outcome = Return("True")
    /\ ~login_result

\* ========================================================================
\* The legacy module: the batch parser of Rt.search (src/rt.py)
\* ========================================================================

\* Rt.__normalize_list of src/rt.py on a list of strings: no test for the
\* empty string.
LegacyNormalizeList(requestors) ==
    LET parts == Split(Join(requestors, ""), ",") IN [i \in 1..Len(parts) |-> Strip(parts[i])]

\* The loops of lines 418-421 and 428-431 over the lines lo..hi, added to
\* pairs: a line with ': ' after its first character gives a key and a value.
RECURSIVE LegacyPairs(_, _, _, _)
LegacyPairs(pairs, msg, lo, hi) ==
    IF hi < lo THEN pairs
    ELSE LET colon == Find(msg[hi], ": ")
             before == LegacyPairs(pairs, msg, lo, hi - 1)
         IN  IF colon > 1
               THEN DictSet(before, Strip(SubSeq(msg[hi], 1, colon - 1)), Str(Strip(From(msg[hi], colon))))
               ELSE before

\* The twelve spaces before a continuation line of the requestors.
TwelveSpaces == "            "

\* Lines 422-426: the place after the last line of the requestors, which
\* begin at place req.
RECURSIVE RequestorsEnd(_, _)
RequestorsEnd(msg, req) ==
    IF req < Len(msg) /\ StartsWith(msg[req + 1], TwelveSpaces)
      THEN RequestorsEnd(msg, req + 1)
      ELSE req + 1

\* Lines 418-431 for a block whose Requestors line is at place req and
\* whose requestors end before place rest.
LegacyItem(msg, req, rest) ==
    LegacyPairs(
        DictSet(LegacyPairs(<<>>, msg, 1, req - 1), "Requestors",
                List(LegacyNormalizeList([i \in 1..(rest - req) |-> From(msg[req + i - 1], 12)]))),
        msg, rest, Len(msg))

\* Lines 409-433 for the blocks from place i on, given the items so far:
\* the items of all blocks, or the failure of a block without a Requestors
\* line.
RECURSIVE LegacyItems(_, _, _)
LegacyItems(items, blocks, i) ==
    IF i > Len(blocks) THEN [failed |-> FALSE, items |-> items]
    ELSE IF FirstMatch(blocks[i], "Requestors:") = 0 THEN [failed |-> TRUE, items |-> items]
    ELSE LegacyItems(
             Append(items, LegacyItem(blocks[i], FirstMatch(blocks[i], "Requestors:"),
                                      RequestorsEnd(blocks[i], FirstMatch(blocks[i], "Requestors:")))),
             blocks, i + 1)

\* Lines 408 and 434-436 keeping the items parsed before the failure.
SearchResult_Mut(parsed_items) == RetList(parsed_items.items)

\* Lines 408 and 434-436: the try statement holds the whole loop, and any
\* exception in it gives the empty list.
SearchResult(parsed_items) ==
    IF parsed_items.failed THEN RetList(<<>>) ELSE RetList(parsed_items.items)

\* The batch parser of Rt.search on the text __request returned.
LegacySearch(msgs) ==
    SearchResult(LegacyItems(<<>>, [i \in 1..Len(Split(msgs, "\n--\n")) |->
                                       Split(Split(msgs, "\n--\n")[i], "\n")], 1))

\* The ticket blocks of a search response: three that parse and two, one
\* of them empty, without a Requestors line.
TicketBlocks ==
    {<<"id: ticket/1", "Subject: a", "Requestors: a@x.cz">>,
     <<"id: ticket/2", "Subject: b">>,
     <<"id: ticket/3", "Requestors: b@x.cz,", "            c@x.cz", "Cc: d@x.cz">>,
     <<"id: ticket/4", "Requestors:">>,
     <<"">>}

\* The blocks one after the other, '--' between them.
RECURSIVE Batch(_)
Batch(blocks) ==
    IF blocks = <<>> THEN <<>>
    ELSE IF Len(blocks) = 1 THEN blocks[1]
    ELSE blocks[1] \o <<"--">> \o Batch(Tail(blocks))

\* The texts of a search response of at most n blocks.
SearchTexts(n) ==
    {Join(<<"RT/4.0.7 200 Ok", "">> \o Batch(blocks), "\n") : blocks \in Blocks(TicketBlocks, n)}

\* A call of the legacy search.
CallLegacySearch ==
    /\ UNCHANGED <<pagedVars, requestVars, roundTripVars, sessionVars, callVars>>
    /\ rec_ret = NoRet
    /\ \E m \in SearchTexts(MaxBlock) :
         /\ Returned(m)
         /\ rec_op' = "search"
         /\ rec_msg' = m
         /\ rec_ret' = LegacySearch(m)

NextLegacySearch == CallLegacySearch \/ NextRecord

SpecLegacySearch == InitRecords /\ [][NextLegacySearch]_vars

\* ------------------------------------------------------------------------
\* Properties of the legacy batch parser.
\* ------------------------------------------------------------------------
\* The blocks of the response, each as its lines.
BatchBlocks ==
    LET texts == Split(rec_msg, "\n--\n") IN [i \in 1..Len(texts) |-> Split(texts[i], "\n")]

\* A block parses when it has a Requestors line.
Parses(block) == \E i \in 1..Len(block) : StartsWith(block[i], "Requestors:")

\* The records of the blocks from place i on that parse, in their order.
RECURSIVE ParsedRecords(_, _)
ParsedRecords(blocks, i) ==
    IF i > Len(blocks) THEN <<>>
    ELSE (IF Parses(blocks[i])
            THEN <<LegacyItem(blocks[i], FirstMatch(blocks[i], "Requestors:"),
                              RequestorsEnd(blocks[i], FirstMatch(blocks[i], "Requestors:")))>>
            ELSE <<>>)
         \o ParsedRecords(blocks, i + 1)

\* C23: when the response holds several ticket blocks separated by '--'
\* and one block fails to parse, only that item is dropped: the result
\* holds the parsed records of all the other blocks, in order.
C23_OnlyFailedItemDropped ==
    rec_op = "search" => rec_ret = RetList(ParsedRecords(BatchBlocks, 1))

\* ========================================================================
\* REST 1: Rt.__parse_response_dict on blocks of lines (src/rt/rest1.py)
\* ========================================================================

\* Rt.__parse_response_dict(lines) without expected keys: the dict of
\* strings it returns or the error it raises.
ParseBlock(lines) ==
    LET dict == ParseResponseLines(lines, <<>>)
    IN  IF dict.error # "" THEN RetRaise(dict.error, dict.message)
        ELSE RetDict(AsStrings(dict.fields))

\* The lines of a block: an empty line, a comment, a status line, key lines
\* with and without a value, one of them with the name the parser uses for
\* 'no key', and a continuation line.
ParserLines ==
    {"", "# note", "RT/4.0.7 200 Ok", "Subject: a", "Subject: b", "Owner:", "<no key>: v",
     "  more"}

\* A call of __parse_response_dict with a list of lines.
CallParseResponseDict ==
    /\ UNCHANGED <<pagedVars, requestVars, roundTripVars, sessionVars, callVars>>
    /\ rec_ret = NoRet
    /\ \E b \in Blocks(ParserLines, MaxBlock) :
         /\ rec_op' = "parse_response_dict"
         /\ rec_msg' = Join(b, "\n")
         /\ rec_ret' = ParseBlock(b)

NextParser == CallParseResponseDict \/ NextRecord

SpecParser == InitRecords /\ [][NextParser]_vars

\* ------------------------------------------------------------------------
\* Properties of the field-block parser.
\* ------------------------------------------------------------------------
\* The lines the parser was given ([] is what the empty text stands for).
BlockLines == IF rec_msg = "" THEN <<>> ELSE Split(rec_msg, "\n")

IsContinuation(line) == line # "" /\ Ch(line, 1) \in Whitespace

\* A status line with no key line before it.
LeadingStatusLine(lines, j) ==
    /\ StatusPattern(lines[j])
    /\ \A k \in 1..(j - 1) :
         lines[k] = "" \/ StartsWith(lines[k], "#") \/ StatusPattern(lines[k])

\* A line that resets the open key to none.
Resets(lines, j) ==
    lines[j] = "" \/ StartsWith(lines[j], "#") \/ LeadingStatusLine(lines, j)

\* A line that opens a key, and the key it opens.
IsKeyLine(lines, j) == ~Resets(lines, j) /\ ~IsContinuation(lines[j])

KeyOf(line) ==
    IF Find(line, ": ") > 0 THEN Partition(line, ": ")[1] ELSE SubSeq(line, 1, Len(line) - 1)

\* The place of the key line whose key is open before line i: the nearest
\* line before i that is no continuation line, if it is a key line; 0 when
\* no key is open.
RECURSIVE OpenKeyLine(_, _)
OpenKeyLine(lines, i) ==
    IF i <= 1 THEN 0
    ELSE IF IsContinuation(lines[i - 1]) THEN OpenKeyLine(lines, i - 1)
    ELSE IF Resets(lines, i - 1) THEN 0
    ELSE i - 1

\* The dict with the text appended, after a newline, to the value of the
\* key, and nothing else changed.
Continued(fields, key, text) ==
    [k \in 1..Len(fields) |->
        IF fields[k].key = key
          THEN [key |-> key, value |-> Str(fields[k].value.s \o "\n" \o text)]
          ELSE fields[k]]

\* C26: a continuation line raises the malformed-message error whenever no
\* key is open (first line of the block, or directly after a blank line, a
\* line starting with '#' or a leading status line); otherwise its
\* left-stripped text is appended, after a newline, to the value of the most
\* recently opened key and to no other key.  Stated for the last line of a
\* block whose lines before it parse.
C26_ContinuationNeedsOpenKey ==
    LET lines == BlockLines
        n == Len(lines)
    IN  (/\ rec_op = "parse_response_dict"
         /\ n > 0
         /\ IsContinuation(lines[n])
         /\ ParseBlock(SubSeq(lines, 1, n - 1)).kind = "dict")
        => IF OpenKeyLine(lines, n) = 0
             THEN /\ rec_ret.kind = "raise"
                  /\ rec_ret.error = "UnexpectedMessageFormatError"
                  /\ rec_ret.message = "Response has a continuation line with no field to continue"
             ELSE rec_ret = RetDict(Continued(ParseBlock(SubSeq(lines, 1, n - 1)).fields,
                                              KeyOf(lines[OpenKeyLine(lines, n)]),
                                              LStrip(lines[n])))

\* The keys of the key lines of a block, in the order of the lines.
RECURSIVE KeysFrom(_, _)
KeysFrom(lines, j) ==
    IF j > Len(lines) THEN <<>>
    ELSE (IF IsKeyLine(lines, j) THEN <<KeyOf(lines[j])>> ELSE <<>>) \o KeysFrom(lines, j + 1)

\* A sequence without the later occurrences of its elements.
RECURSIVE FirstOccurrences(_)
FirstOccurrences(seq) ==
    IF seq = <<>> THEN <<>>
    ELSE LET front == FirstOccurrences(SubSeq(seq, 1, Len(seq) - 1))
         IN  IF \E k \in 1..Len(front) : front[k] = seq[Len(seq)] THEN front
             ELSE Append(front, seq[Len(seq)])

\* The places of the key lines of a key.
LinesOfKey(lines, key) == {j \in 1..Len(lines) : IsKeyLine(lines, j) /\ KeyOf(lines[j]) = key}

\* The largest number of a set.
LastOf(S) == CHOOSE x \in S : \A y \in S : x >= y

\* The continuation lines that follow line j directly, left-stripped.
RECURSIVE RunAfter(_, _)
RunAfter(lines, j) ==
    IF j >= Len(lines) \/ ~IsContinuation(lines[j + 1]) THEN <<>>
    ELSE <<LStrip(lines[j + 1])>> \o RunAfter(lines, j + 1)

\* The value the key line j and the continuation lines after it give.
ValueAt(lines, j) ==
    Join((IF Find(lines[j], ": ") > 0 THEN <<Partition(lines[j], ": ")[3]>> ELSE <<>>)
         \o RunAfter(lines, j), "\n")

\* The keys of the returned dict, in its order.
ReturnedKeys == [k \in 1..Len(rec_ret.fields) |-> rec_ret.fields[k].key]

\* C27: in the mapping the parser returns every key occurs exactly once and
\* at the position of its first occurrence in the input; when a later key
\* line repeats a key, the value recorded from the first occurrence is not
\* replaced by the later line.
C27_FirstValueKept ==
    (rec_op = "parse_response_dict" /\ rec_ret.kind = "dict") =>
        LET lines == BlockLines
        IN  /\ ReturnedKeys = FirstOccurrences(KeysFrom(lines, 1))
            /\ \A k \in 1..Len(rec_ret.fields) :
                 StartsWith(rec_ret.fields[k].value.s,
                            ValueAt(lines, Min(LinesOfKey(lines, rec_ret.fields[k].key))))

\* C27 as amended: every key occurs exactly once and at the position of its
\* first occurrence; when a later key line repeats a key, last write wins:
\* the value begins with what the last key line of that key and the
\* continuation lines directly after it give, and nothing of the earlier
\* occurrences is kept.
C27_LastWriteWins ==
    (rec_op = "parse_response_dict" /\ rec_ret.kind = "dict") =>
        LET lines == BlockLines
        IN  /\ ReturnedKeys = FirstOccurrences(KeysFrom(lines, 1))
            /\ \A k \in 1..Len(rec_ret.fields) :
                 StartsWith(rec_ret.fields[k].value.s,
                            ValueAt(lines, LastOf(LinesOfKey(lines, rec_ret.fields[k].key))))

\* C27 witness: a key is repeated after another key; it stays first and has
\* the later value.
C27_Witness ==
    /\ rec_op = "parse_response_dict"
    /\ rec_msg = "Subject: a\nOwner:\nSubject: b"
    /\ rec_ret = RetDict(<<[key |-> "Subject", value |-> Str("b")],
                           [key |-> "Owner", value |-> Str("")]>>)

\* ========================================================================
\* Edit and create operations of both clients and last_updated of REST 2
\* (src/rt/rest1.py, src/rt/rest2.py): what each sends before it returns
\* ========================================================================
\* The client is logged in, and the transport answers with a text that
\* __check_response lets through.

\* str.lower() for the letters of ASCII.
LowerChar(c) ==
    LET upper == "ABCDEFGHIJKLMNOPQRSTUVWXYZ"
        lower == "abcdefghijklmnopqrstuvwxyz"
        at == {i \in 1..26 : Ch(upper, i) = c}
    IN  IF at = {} THEN c ELSE Ch(lower, CHOOSE i \in at : TRUE)

RECURSIVE Lower(_)
Lower(s) == IF s = "" THEN "" ELSE LowerChar(Ch(s, 1)) \o Lower(From(s, 1))

\* str.isnumeric() for texts of ASCII.
IsNumeric(s) == s # "" /\ \A i \in 1..Len(s) : Ch(s, i) \in Digits

\* One transport call: what was asked and what the server answered.
Exchange(selector, content, answer) ==
    [selector |-> selector, content |-> content, answer |-> answer]

\* What an operation has sent and what it returns or raises.
Done(exchanges, ret) == [sent |-> exchanges, ret |-> ret]

\* Line 1161 of rest1.py: valid_fields of edit_user.
ValidUserFields1 ==
    {"name", "password", "emailaddress", "realname", "nickname", "gecos", "organization",
     "address1", "address2", "city", "state", "zip", "country", "homephone", "workphone",
     "mobilephone", "pagerphone", "contactinfo", "comments", "signature", "lang",
     "emailencoding", "webencoding", "externalcontactinfoid", "contactinfosystem",
     "externalauthid", "authsystem", "privileged", "disabled"}

\* Line 1239 of rest1.py: valid_fields of edit_queue.
ValidQueueFields1 ==
    {"name", "description", "correspondaddress", "commentaddress", "initialpriority",
     "finalpriority", "defaultduein"}

\* Line 1345 of rest1.py: valid_link_names of edit_link.
ValidLinkNames1 ==
    {"dependson", "dependedonby", "refersto", "referredtoby", "hasmember", "memberof"}

\* Lines 1168-1171: used_fields - valid_fields, the names lowered.  (Python
\* joins them in the order of a set; the calls below pass one unsupported
\* name at most.)
InvalidFields1(names, valid_fields) ==
    SelectSeq([i \in 1..Len(names) |-> Lower(names[i])], LAMBDA n : n \notin valid_fields)

\* Lines 1170-1172 and 1245-1247: the error for unsupported names, if any.
UnsupportedFields1(names, valid_fields) ==
    IF InvalidFields1(names, valid_fields) # <<>>
      THEN Raise("InvalidUseError",
                 "Unsupported names of fields: " \o Join(InvalidFields1(names, valid_fields), ", ")
                 \o ".")
      ELSE Return("")

\* Lines 1182-1183 and 1249-1250: one line 'key: val' for each keyword (the
\* values are all 'v' here).
RECURSIVE PostFields(_)
PostFields(names) ==
    IF names = <<>> THEN "" ELSE names[1] \o ": v\n" \o PostFields(Tail(names))

\* RE_PATTERNS['user_pattern']: ^# User ([0-9]*) (?:updated|created)\.$ and
\* its group; RE_PATTERNS['queue_pattern'] has \w* for the group.
EditedPattern(line, kind, chars) ==
    \E verb \in {" updated.", " created."} :
        /\ StartsWith(line, "# " \o kind \o " ")
        /\ EndsWith(line, verb)
        /\ Len(line) >= Len("# " \o kind \o " ") + Len(verb)
        /\ \A i \in (Len("# " \o kind \o " ") + 1)..(Len(line) - Len(verb)) : Ch(line, i) \in chars

EditedId(line, kind) ==
    SubSeq(line, Len("# " \o kind \o " ") + 1, Len(line) - Len(" updated."))

\* Lines 1181-1191: the edit request of edit_user and what it returns: the
\* id the server names (int() of no digits raises ValueError), or False.
EditUserRequest(user_id, names, answer) ==
    LET msgs == Split(answer, "\n")
    IN  Done(<<Exchange("edit", "id: user/" \o user_id \o "\n" \o PostFields(names), answer)>>,
             IF GetStatusCode(answer) = 200 /\ Len(msgs) > 2 /\ EditedPattern(msgs[3], "User", Digits)
               THEN IF EditedId(msgs[3], "User") = ""
                      THEN Raise("ValueError", "invalid literal for int() with base 10: ''")
                      ELSE Return(ToString(IntOf(EditedId(msgs[3], "User"))))
               ELSE Return("False"))

\* Lines 1174-1179: the lookup of a user given by name.  found is what
\* get_user made of the answer; the id returned is the part of the record's
\* id after its first '/'.
LookedUp(user_id, found, look) ==
    IF found.kind = "raise" THEN Done(<<look>>, Raise(found.error, found.message))
    ELSE IF found.kind = "None"
      THEN Done(<<look>>, Raise("NotFoundError", "User \"" \o user_id \o "\" does not exist."))
    ELSE IF "id" \notin DictKeys(found.fields)
      THEN Done(<<look>>, Raise("KeyError", "'id'"))
    ELSE IF Find(DictGet(found.fields, "id").s, "/") = 0
      THEN Done(<<look>>, Raise("IndexError", "list index out of range"))
    ELSE Done(<<look>>, Return(Partition(DictGet(found.fields, "id").s, "/")[3]))

\* Lines 1174-1191, after the check of the names.
EditKnownUser(user, names, answer) ==
    IF user.ret.kind = "raise" THEN user
    ELSE Done(user.sent \o EditUserRequest(user.ret.value, names, answer).sent,
              EditUserRequest(user.ret.value, names, answer).ret)

\* edit_user with the lookup of lines 1174-1179 moved before the check of the
\* names of lines 1168-1172.
EditUser1_Mut(user_id, names, lookup, answer) ==
    IF ~IsNumeric(user_id)
      THEN IF UnsupportedFields1(names, ValidUserFields1).kind = "raise"
             THEN Done(<<Exchange("user/" \o user_id, "", lookup)>>,
                       UnsupportedFields1(names, ValidUserFields1))
             ELSE EditKnownUser(LookedUp(user_id, GetUser(lookup),
                                         Exchange("user/" \o user_id, "", lookup)),
                                names, answer)
    ELSE IF UnsupportedFields1(names, ValidUserFields1).kind = "raise"
      THEN Done(<<>>, UnsupportedFields1(names, ValidUserFields1))
    ELSE EditUserRequest(user_id, names, answer)

\* Rt.edit_user of rest1.py.  lookup is the server's answer to get_user,
\* asked only for an id that is a string and not numeric.
EditUser1(user_id, names, lookup, answer) ==
    IF UnsupportedFields1(names, ValidUserFields1).kind = "raise"
      THEN Done(<<>>, UnsupportedFields1(names, ValidUserFields1))
    ELSE IF ~IsNumeric(user_id)
      THEN EditKnownUser(LookedUp(user_id, GetUser(lookup), Exchange("user/" \o user_id, "", lookup)),
                         names, answer)
    ELSE EditUserRequest(user_id, names, answer)

\* Rt.edit_queue of rest1.py: the name the server gives back, or False.
EditQueue1(queue_id, names, answer) ==
    LET msgs == Split(answer, "\n")
    IN  IF UnsupportedFields1(names, ValidQueueFields1).kind = "raise"
          THEN Done(<<>>, UnsupportedFields1(names, ValidQueueFields1))
        ELSE Done(<<Exchange("edit", "id: queue/" \o queue_id \o "\n" \o PostFields(names), answer)>>,
                  IF GetStatusCode(answer) = 200 /\ Len(msgs) > 2
                        /\ EditedPattern(msgs[3], "Queue", WordChars)
                    THEN Return(EditedId(msgs[3], "Queue"))
                    ELSE Return("False"))

\* Line 1268: int() of what edit_queue returned; int(False) is 0.
IntOfEdited(edited) ==
    IF edited.ret.kind = "raise" THEN edited
    ELSE IF edited.ret.value = "False" THEN Done(edited.sent, Return("0"))
    ELSE IF IsNumeric(edited.ret.value)
      THEN Done(edited.sent, Return(ToString(IntOf(edited.ret.value))))
    ELSE Done(edited.sent, Raise("ValueError", "invalid literal for int() with base 10: '"
                                               \o edited.ret.value \o "'"))

\* Lines 1347-1348: the test of the link name.
UnsupportedLink1(link_name) == Lower(link_name) \notin ValidLinkNames1

\* Rt.edit_link of rest1.py; 'del' is 0: a link is created.
EditLink1(link_name, answer) ==
    LET msgs == Split(answer, "\n")
    IN  IF UnsupportedLink1(link_name) THEN Done(<<>>, Raise("InvalidUseError", "Unsupported name of link."))
        ELSE Done(<<Exchange("ticket/link", "rel=" \o Lower(link_name) \o "&to=2&id=1&del=0", answer)>>,
                  IF Len(msgs) < 3 THEN Raise("IndexError", "list index out of range")
                  ELSE IF Find(msgs[3], " Created link ") > 0 THEN Return("True")
                  ELSE Return("False"))

\* Lines 980-986 and 1056-1062 of rest2.py: valid_fields of create_user and
\* edit_user.
ValidUserFields2 ==
    {"Name", "Password", "EmailAddress", "RealName", "Nickname", "Gecos", "Organization",
     "Address1", "Address2", "City", "State", "Zip", "Country", "HomePhone", "WorkPhone",
     "MobilePhone", "PagerPhone", "ContactInfo", "Comments", "Signature", "Lang",
     "EmailEncoding", "WebEncoding", "ExternalContactInfoId", "ContactInfoSystem",
     "ExternalAuthId", "AuthSystem", "Privileged", "Disabled", "CustomFields"}

\* Lines 1231-1233 and 1268-1270 of rest2.py: valid_fields of edit_queue and
\* create_queue.
ValidQueueFields2 ==
    {"Name", "Description", "CorrespondAddress", "CommentAddress", "Disabled", "SLADisabled",
     "Lifecycle", "SortOrder"}

\* Line 53 of rest2.py.
VALID_TICKET_LINK_NAMES ==
    {"Parent", "Child", "RefersTo", "ReferredToBy", "DependsOn", "DependedOnBy"}

\* Lines 993-1001 of rest2.py and their like: the error for the keywords
\* that are no valid field, in the order of the keywords.
UnsupportedFields2(names, valid_fields) ==
    LET invalid_fields == SelectSeq(names, LAMBDA n : n \notin valid_fields)
    IN  IF invalid_fields # <<>>
          THEN Raise("InvalidUseError",
                     "Unsupported names of fields: " \o Join(invalid_fields, ", ") \o ".")
          ELSE Return("")

\* What the server of REST 2 answers: an HTTP status and a JSON value, a
\* dict with an id or a list of messages.
Answers2 ==
    {[status_code |-> 200, json |-> "dict", msgs |-> <<"7">>],
     [status_code |-> 201, json |-> "dict", msgs |-> <<"8">>],
     [status_code |-> 200, json |-> "list", msgs |-> <<>>],
     [status_code |-> 200, json |-> "list", msgs |-> <<"User 7: RealName changed from 'a' to 'b'">>],
     [status_code |-> 200, json |-> "list", msgs |-> <<"Couldn't resolve base 'x' into a URI.">>],
     [status_code |-> 200, json |-> "list", msgs |-> <<"Linking to a deleted ticket is not allowed">>],
     [status_code |-> 400, json |-> "dict", msgs |-> <<"Bad request">>],
     [status_code |-> 404, json |-> "dict", msgs |-> <<"No such resource found.">>],
     [status_code |-> 500, json |-> "dict", msgs |-> <<"Internal error">>]}

\* str(res) of an answer, in short.
AnswerText(answer) == answer.json \o ": " \o Join(answer.msgs, "\n")

\* Rt.__request, Rt.__request_put of rest2.py: __check_response raises for
\* the HTTP status, or the JSON value is returned.
Request2(selector, content, answer) ==
    Done(<<Exchange(selector, content, AnswerText(answer))>>,
         IF CheckResponse2(answer.status_code) # ""
           THEN Raise(CheckResponse2(answer.status_code), "")
           ELSE Return(AnswerText(answer)))

\* The keywords as the body of a request.
Keywords(names) == Join(names, ",")

\* Rt.create_user and Rt.create_queue of rest2.py, after the request: the
\* id of the dict, or UnexpectedResponseError for another value.
CreatedId(asked, answer) ==
    IF asked.ret.kind = "raise" THEN asked
    ELSE IF answer.json # "dict" THEN Done(asked.sent, Raise("UnexpectedResponseError", AnswerText(answer)))
    ELSE Done(asked.sent, Return(answer.msgs[1]))

\* Rt.create_user of rest2.py.
CreateUser2(names, answer) ==
    IF UnsupportedFields2(names, ValidUserFields2).kind = "raise"
      THEN Done(<<>>, UnsupportedFields2(names, ValidUserFields2))
      ELSE CreatedId(Request2("user", Keywords(<<"Name", "EmailAddress">> \o names), answer), answer)

\* Rt.edit_user of rest2.py: what __request_put returned.
EditUser2(user_id, names, answer) ==
    IF UnsupportedFields2(names, ValidUserFields2).kind = "raise"
      THEN Done(<<>>, UnsupportedFields2(names, ValidUserFields2))
      ELSE Request2("user/" \o user_id, Keywords(names), answer)

\* Rt.edit_queue of rest2.py.
EditQueue2(queue_id, names, answer) ==
    IF UnsupportedFields2(names, ValidQueueFields2).kind = "raise"
      THEN Done(<<>>, UnsupportedFields2(names, ValidQueueFields2))
      ELSE Request2("queue/" \o queue_id, Keywords(names), answer)

\* Rt.create_queue of rest2.py.
CreateQueue2(names, answer) ==
    IF UnsupportedFields2(names, ValidQueueFields2).kind = "raise"
      THEN Done(<<>>, UnsupportedFields2(names, ValidQueueFields2))
      ELSE CreatedId(Request2("queue", Keywords(<<"Name">> \o names), answer), answer)

\* Lines 1382-1388 of rest2.py: the messages of the answer to edit_link.
LinkResult(asked, answer) ==
    IF asked.ret.kind = "raise" THEN asked
    ELSE IF answer.json = "list" /\ answer.msgs # <<>> /\ StartsWith(answer.msgs[1], "Couldn't resolve")
      THEN Done(asked.sent, Raise("NotFoundError", answer.msgs[1]))
    ELSE IF answer.json = "list" /\ answer.msgs # <<>> /\ Find(answer.msgs[1], "not allowed") > 0
      THEN Done(asked.sent, Raise("InvalidUseError", answer.msgs[1]))
    ELSE Done(asked.sent, Return("True"))

\* Rt.edit_link of rest2.py; delete is false.
EditLink2(link_name, answer) ==
    IF link_name \notin VALID_TICKET_LINK_NAMES
      THEN Done(<<>>, Raise("InvalidUseError",
                            "Unsupported link name. Use one of \"Parent, Child, RefersTo, ReferredToBy, DependsOn, DependedOnBy\"."))
      ELSE LinkResult(Request2("ticket/1", "Add" \o link_name, answer), answer)

\* Rt.__correspond of rest2.py.
Correspond2(action, answer) ==
    IF action \notin {"correspond", "comment"}
      THEN Done(<<>>, Raise("InvalidUseError", "action must be either \"correspond\" or \"comment\""))
    ELSE IF Request2("ticket/1/" \o action, "Content", answer).ret.kind = "return" /\ answer.json # "list"
      THEN Done(Request2("ticket/1/" \o action, "Content", answer).sent,
                Raise("UnexpectedResponseError", AnswerText(answer)))
    ELSE Request2("ticket/1/" \o action, "Content", answer)

\* re.match(r'(\d{4})-(\d{2})-(\d{2})', _date): the pattern is not anchored
\* at its end.
DatePattern(date) ==
    /\ Len(date) >= 10
    /\ \A i \in {1, 2, 3, 4, 6, 7, 9, 10} : Ch(date, i) \in Digits
    /\ Ch(date, 5) = "-"
    /\ Ch(date, 8) = "-"

\* Rt.__validate_date of rest2.py.
ValidateDate(date) ==
    /\ DatePattern(date)
    /\ 1970 < IntOf(SubSeq(date, 1, 4))
    /\ IntOf(SubSeq(date, 1, 4)) < 2100
    /\ 1 < IntOf(SubSeq(date, 6, 7))
    /\ IntOf(SubSeq(date, 6, 7)) <= 12
    /\ 1 < IntOf(SubSeq(date, 9, 10))
    /\ IntOf(SubSeq(date, 9, 10)) <= 31

\* Rt.last_updated of rest2.py: search is a generator function, so that the
\* call returns an iterator and sends nothing yet.
LastUpdated2(since) ==
    IF ~ValidateDate(since)
      THEN Done(<<>>, Raise("InvalidUseError", "Invalid date specified - \"" \o since \o "\""))
      ELSE Done(<<>>, Return("iterator"))

\* Rt.search of rest2.py for the keywords of last_updated: the first
\* request of the iterator.
SearchRequest(since) ==
    Exchange("tickets", "query=(LastUpdated>'" \o since \o "')&orderby=LastUpdated&order=DESC", "")

\* The arguments of the calls: ids of users given by number and by name,
\* keywords with and without an unsupported name, link names, actions and
\* dates.
UserIds == {"5", "john", "john.doe"}

UserKeywords == {<<>>, <<"RealName">>, <<"realname">>, <<"Bogus">>, <<"RealName", "Bogus">>}

QueueKeywords == {<<>>, <<"Description">>, <<"description">>, <<"Bogus">>}

LinkNames == {"DependsOn", "dependson", "RefersTo", "Parent", "HasMember", "Blocks"}

Actions == {"correspond", "comment", "reply"}

Dates ==
    {"2011-02-24", "2011-12-31", "2011-01-15", "2011-02-01", "2011-13-02", "2011-02-32",
     "2011-00-10", "2011-02-00", "1970-05-05", "2100-05-05", "2011-2-24", "11-02-24",
     "2011-02-24T10:00", "2011/02/24", "yesterday", ""}

\* What the server of REST 1 answers to get_user for a user it has, and for
\* one it has not.
Lookups(user_id) ==
    {"RT/4.0.7 200 Ok\n\nid: user/7\nName: " \o user_id,
     "RT/4.0.7 200 Ok\n\n# User " \o user_id \o " does not exist."}

\* What the server of REST 1 answers to an edit and to ticket/link.
EditAnswers1 ==
    {"RT/4.0.7 200 Ok\n\n# User 7 updated.", "RT/4.0.7 200 Ok\n\n# User 8 created.",
     "RT/4.0.7 200 Ok\n\n# Queue General updated.", "RT/4.0.7 200 Ok\n\n# Queue 3 created.",
     "RT/4.0.7 200 Ok\n\n# Ticket 1: Created link 1 DependsOn 2",
     "RT/4.0.7 200 Ok\n\n# Could not set RealName.", "RT/4.0.7 200 Ok"}

Called(api, op, id, names) == [api |-> api, op |-> op, id |-> id, names |-> names]

\* A call of edit_user of rest1.py.
CallEditUser1 ==
    /\ UNCHANGED <<pagedVars, requestVars, roundTripVars, recordVars, sessionVars>>
    /\ op_ret = NoOutcome
    /\ \E user_id \in UserIds, names \in UserKeywords, answer \in EditAnswers1 :
         \E lookup \in Lookups(user_id) :
            /\ op_call' = Called("rest1", "edit_user", user_id, names)
            /\ sent' = EditUser1(user_id, names, lookup, answer).sent
            /\ op_ret' = EditUser1(user_id, names, lookup, answer).ret

\* A call of create_user of rest1.py: edit_user('new', Name=..., EmailAddress=...).
CallCreateUser1 ==
    /\ UNCHANGED <<pagedVars, requestVars, roundTripVars, recordVars, sessionVars>>
    /\ op_ret = NoOutcome
    /\ \E names \in UserKeywords, answer \in EditAnswers1 :
         \E lookup \in Lookups("new") \cup {"RT/4.0.7 200 Ok\n\nid: user/new\nName: "} :
            /\ op_call' = Called("rest1", "create_user", "new", names)
            /\ sent' = EditUser1("new", <<"Name", "EmailAddress">> \o names, lookup, answer).sent
            /\ op_ret' = EditUser1("new", <<"Name", "EmailAddress">> \o names, lookup, answer).ret

\* A call of edit_queue of rest1.py.
CallEditQueue1 ==
    /\ UNCHANGED <<pagedVars, requestVars, roundTripVars, recordVars, sessionVars>>
    /\ op_ret = NoOutcome
    /\ \E queue_id \in {"3", "General"}, names \in QueueKeywords, answer \in EditAnswers1 :
         /\ op_call' = Called("rest1", "edit_queue", queue_id, names)
         /\ sent' = EditQueue1(queue_id, names, answer).sent
         /\ op_ret' = EditQueue1(queue_id, names, answer).ret

\* A call of create_queue of rest1.py: int(edit_queue('new', Name=...)).
CallCreateQueue1 ==
    /\ UNCHANGED <<pagedVars, requestVars, roundTripVars, recordVars, sessionVars>>
    /\ op_ret = NoOutcome
    /\ \E names \in QueueKeywords, answer \in EditAnswers1 :
         /\ op_call' = Called("rest1", "create_queue", "new", names)
         /\ sent' = IntOfEdited(EditQueue1("new", <<"Name">> \o names, answer)).sent
         /\ op_ret' = IntOfEdited(EditQueue1("new", <<"Name">> \o names, answer)).ret

\* A call of edit_link of rest1.py.
CallEditLink1 ==
    /\ UNCHANGED <<pagedVars, requestVars, roundTripVars, recordVars, sessionVars>>
    /\ op_ret = NoOutcome
    /\ \E link_name \in LinkNames, answer \in EditAnswers1 :
         /\ op_call' = Called("rest1", "edit_link", link_name, <<>>)
         /\ sent' = EditLink1(link_name, answer).sent
         /\ op_ret' = EditLink1(link_name, answer).ret

\* A call of create_user of rest2.py.
CallCreateUser2 ==
    /\ UNCHANGED <<pagedVars, requestVars, roundTripVars, recordVars, sessionVars>>
    /\ op_ret = NoOutcome
    /\ \E names \in UserKeywords, answer \in Answers2 :
         /\ op_call' = Called("rest2", "create_user", "new", names)
         /\ sent' = CreateUser2(names, answer).sent
         /\ op_ret' = CreateUser2(names, answer).ret

\* A call of edit_user of rest2.py.
CallEditUser2 ==
    /\ UNCHANGED <<pagedVars, requestVars, roundTripVars, recordVars, sessionVars>>
    /\ op_ret = NoOutcome
    /\ \E user_id \in UserIds, names \in UserKeywords, answer \in Answers2 :
         /\ op_call' = Called("rest2", "edit_user", user_id, names)
         /\ sent' = EditUser2(user_id, names, answer).sent
         /\ op_ret' = EditUser2(user_id, names, answer).ret

\* A call of edit_queue of rest2.py.
CallEditQueue2 ==
    /\ UNCHANGED <<pagedVars, requestVars, roundTripVars, recordVars, sessionVars>>
    /\ op_ret = NoOutcome
    /\ \E queue_id \in {"3", "General"}, names \in QueueKeywords, answer \in Answers2 :
         /\ op_call' = Called("rest2", "edit_queue", queue_id, names)
         /\ sent' = EditQueue2(queue_id, names, answer).sent
         /\ op_ret' = EditQueue2(queue_id, names, answer).ret

\* A call of create_queue of rest2.py.
CallCreateQueue2 ==
    /\ UNCHANGED <<pagedVars, requestVars, roundTripVars, recordVars, sessionVars>>
    /\ op_ret = NoOutcome
    /\ \E names \in QueueKeywords, answer \in Answers2 :
         /\ op_call' = Called("rest2", "create_queue", "new", names)
         /\ sent' = CreateQueue2(names, answer).sent
         /\ op_ret' = CreateQueue2(names, answer).ret

\* A call of edit_link of rest2.py.
CallEditLink2 ==
    /\ UNCHANGED <<pagedVars, requestVars, roundTripVars, recordVars, sessionVars>>
    /\ op_ret = NoOutcome
    /\ \E link_name \in LinkNames, answer \in Answers2 :
         /\ op_call' = Called("rest2", "edit_link", link_name, <<>>)
         /\ sent' = EditLink2(link_name, answer).sent
         /\ op_ret' = EditLink2(link_name, answer).ret

\* A call of __correspond of rest2.py.
CallCorrespond2 ==
    /\ UNCHANGED <<pagedVars, requestVars, roundTripVars, recordVars, sessionVars>>
    /\ op_ret = NoOutcome
    /\ \E action \in Actions, answer \in Answers2 :
         /\ op_call' = Called("rest2", "correspond", action, <<>>)
         /\ sent' = Correspond2(action, answer).sent
         /\ op_ret' = Correspond2(action, answer).ret

\* A call of last_updated of rest2.py.
CallLastUpdated2 ==
    /\ UNCHANGED <<pagedVars, requestVars, roundTripVars, recordVars, sessionVars>>
    /\ op_ret = NoOutcome
    /\ \E since \in Dates :
         /\ op_call' = Called("rest2", "last_updated", since, <<>>)
         /\ sent' = LastUpdated2(since).sent
         /\ op_ret' = LastUpdated2(since).ret

\* The caller asks the iterator of last_updated for its first ticket: the
\* body of search runs and its first request goes out.
AdvanceSearch ==
    /\ UNCHANGED <<pagedVars, requestVars, roundTripVars, recordVars, sessionVars>>
    /\ op_call.op = "last_updated"
    /\ op_ret = Return("iterator")
    /\ sent = <<>>
    /\ sent' = <<SearchRequest(op_call.id)>>
    /\ UNCHANGED <<op_call, op_ret>>

\* The caller goes on to its next call.
NextOperation ==
    /\ UNCHANGED <<pagedVars, requestVars, roundTripVars, recordVars, sessionVars>>
    /\ op_ret # NoOutcome
    /\ op_call' = NoCall
    /\ sent' = <<>>
    /\ op_ret' = NoOutcome

InitCalls ==
    /\ IdlePaged
    /\ IdleRequest
    /\ IdleRoundTrip
    /\ IdleRecords
    /\ IdleSession
    /\ IdleCalls

NextCalls ==
    \/ CallEditUser1
    \/ CallCreateUser1
    \/ CallEditQueue1
    \/ CallCreateQueue1
    \/ CallEditLink1
    \/ CallCreateUser2
    \/ CallEditUser2
    \/ CallEditQueue2
    \/ CallCreateQueue2
    \/ CallEditLink2
    \/ CallCorrespond2
    \/ CallLastUpdated2
    \/ AdvanceSearch
    \/ NextOperation

SpecCalls == InitCalls /\ [][NextCalls]_vars

\* ------------------------------------------------------------------------
\* Properties of the edit and create operations and of last_updated.
\* ------------------------------------------------------------------------
\* The keywords of the call (those of the caller: the Name and EmailAddress
\* that create_user and create_queue pass on are supported).
AllKeywords == op_call.names

\* The call was given a keyword that is no field of users (of queues) for
\* its client: REST 1 compares the lowered names, REST 2 the names as given.
UnsupportedFieldName ==
    /\ op_call.op \in {"edit_user", "create_user", "edit_queue", "create_queue"}
    /\ \E i \in 1..Len(AllKeywords) :
         LET fields == IF op_call.op \in {"edit_user", "create_user"}
                         THEN IF op_call.api = "rest1" THEN ValidUserFields1 ELSE ValidUserFields2
                         ELSE IF op_call.api = "rest1" THEN ValidQueueFields1 ELSE ValidQueueFields2
         IN  (IF op_call.api = "rest1" THEN Lower(AllKeywords[i]) ELSE AllKeywords[i]) \notin fields

\* The call was given a link name its client does not know.
UnsupportedLinkName ==
    /\ op_call.op = "edit_link"
    /\ IF op_call.api = "rest1" THEN Lower(op_call.id) \notin ValidLinkNames1
       ELSE op_call.id \notin VALID_TICKET_LINK_NAMES

\* The call was given an action that is neither correspond nor comment.
InvalidActionKeyword == op_call.op = "correspond" /\ op_call.id \notin {"correspond", "comment"}

\* C22: when an edit or create call is given an unsupported field name
\* (edit_user, create_user, edit_queue, create_queue), an unsupported link
\* name (edit_link) or an invalid action keyword, the operation raises
\* InvalidUseError and has issued no transport call at all, neither the edit
\* nor a preliminary lookup.
C22_InvalidUseBeforeAnyCall ==
    (UnsupportedFieldName \/ UnsupportedLinkName \/ InvalidActionKeyword) =>
        /\ op_ret.kind = "raise"
        /\ op_ret.error = "InvalidUseError"
        /\ sent = <<>>

\* C22 witness: edit_user of REST 1 for a user given by name, which would
\* need a lookup, with an unsupported keyword: it raised and sent nothing.
C22_Witness ==
    /\ op_call = Called("rest1", "edit_user", "john", <<"RealName", "Bogus">>)
    /\ op_ret = Raise("InvalidUseError", "Unsupported names of fields: bogus.")
    /\ sent = <<>>

\* A date of the form YYYY-MM-DD with a month 01..12 and a day 01..31.
IsDate(date) ==
    /\ Len(date) = 10
    /\ \A i \in {1, 2, 3, 4, 6, 7, 9, 10} : Ch(date, i) \in Digits
    /\ Ch(date, 5) = "-"
    /\ Ch(date, 8) = "-"
    /\ IntOf(SubSeq(date, 6, 7)) \in 1..12
    /\ IntOf(SubSeq(date, 9, 10)) \in 1..31

\* C25: last_updated(since) of REST 2 raises InvalidUseError, before any
\* request is sent, exactly when since is no date of the form YYYY-MM-DD;
\* every date of that form with a month 01..12 and a day 01..31 (January and
\* the first of a month included) is accepted and leads to the search
\* request.
C25_ExactlyDatesAccepted ==
    op_call.op = "last_updated" =>
        IF IsDate(op_call.id)
          THEN /\ op_ret = Return("iterator")
               /\ sent \in {<<>>, <<SearchRequest(op_call.id)>>}
          ELSE /\ op_ret.kind = "raise"
               /\ op_ret.error = "InvalidUseError"
               /\ sent = <<>>

\* The server answered the lookup with the marker of a user it has not.
ReportedMissing(exchange, user_id) ==
    Split(exchange.answer, "\n") = <<"RT/4.0.7 200 Ok", "", "# User " \o user_id \o " does not exist.">>

\* C29: edit_user of REST 1 called with a user name (a string that is not
\* numeric) first looks the user up with get_user; if the server reports
\* that the user does not exist it raises NotFoundError and sends no edit
\* request; otherwise it sends exactly one edit request, which carries the
\* numeric id taken from the lookup result.  (Stated for calls whose
\* keywords are all supported.)
C29_LookupThenOneEdit ==
    (/\ op_call.api = "rest1"
     /\ op_call.op = "edit_user"
     /\ ~IsNumeric(op_call.id)
     /\ ~UnsupportedFieldName)
    => /\ Len(sent) >= 1
       /\ sent[1].selector = "user/" \o op_call.id
       /\ IF ReportedMissing(sent[1], op_call.id)
            THEN /\ Len(sent) = 1
                 /\ op_ret.kind = "raise"
                 /\ op_ret.error = "NotFoundError"
            ELSE /\ Len(sent) = 2
                 /\ sent[2].selector = "edit"
                 /\ StartsWith(sent[2].content, "id: user/7\n")

\* ========================================================================
\* REST 1: Rt.__get_status_code on its own (src/rt/rest1.py)
\* ========================================================================

\* What __get_status_code returns: an int.
RetInt(code) ==
    [kind |-> "int", error |-> "", message |-> "", fields |-> <<>>, content |-> ToString(code)]

\* The parts of a first line: what stands before the first space, the word
\* after it, and what follows that word.
StatusTokens == {"RT/4.0.7", "x", ""}

StatusWords ==
    {"200", "401", "007", "+200", "-1", "2_0", "_20", "20_", "2__0", "200\t", "\t200", "20x",
     "Ok", "+", ""}

StatusTails == {"", " Ok", " ", " Not Found"}

\* The texts handed to __get_status_code: a first line with or without a
\* second word, and nothing or a second line after it.
StatusTexts ==
    {token \o more : token \in StatusTokens, more \in {"", "\nHTTP 500 x"}}
    \cup {token \o " " \o word \o tail \o more :
            token \in StatusTokens, word \in StatusWords, tail \in StatusTails,
            more \in {"", "\nHTTP 500 x"}}

\* A call of __get_status_code.
CallGetStatusCode ==
    /\ UNCHANGED <<pagedVars, requestVars, roundTripVars, sessionVars, callVars>>
    /\ rec_ret = NoRet
    /\ \E m \in StatusTexts :
         /\ rec_op' = "get_status_code"
         /\ rec_msg' = m
         /\ rec_ret' = IF StatusWord(m).ok THEN RetInt(StatusWord(m).value) ELSE RetNone

NextStatusLine == CallGetStatusCode \/ NextRecord

SpecStatusLine == InitRecords /\ [][NextStatusLine]_vars

\* ------------------------------------------------------------------------
\* Properties of __get_status_code.
\* ------------------------------------------------------------------------
\* The first line of the text.
FirstLine == IF Find(rec_msg, "\n") = 0 THEN rec_msg ELSE SubSeq(rec_msg, 1, Find(rec_msg, "\n") - 1)

\* The places of the spaces of a line, and the next space after place i (one
\* past the end of the line when there is none).
SpacesOf(line) == {i \in 1..Len(line) : Ch(line, i) = " "}

SpaceAfter(line, i) ==
    IF \E j \in SpacesOf(line) : j > i THEN Min({j \in SpacesOf(line) : j > i}) ELSE Len(line) + 1

\* The line has the shape '<token> <digits> <text>': a token, a space, one
\* or more digits, a space, and the text.
HasShape(line) ==
    /\ SpacesOf(line) # {}
    /\ Min(SpacesOf(line)) > 1
    /\ SpaceAfter(line, Min(SpacesOf(line))) <= Len(line)
    /\ SpaceAfter(line, Min(SpacesOf(line))) > Min(SpacesOf(line)) + 1
    /\ \A i \in (Min(SpacesOf(line)) + 1)..(SpaceAfter(line, Min(SpacesOf(line))) - 1) :
         Ch(line, i) \in Digits

\* What stands between the first space of the line and the next.
SecondWord(line) ==
    SubSeq(line, Min(SpacesOf(line)) + 1, SpaceAfter(line, Min(SpacesOf(line))) - 1)

\* C24: __get_status_code never raises for a string; it returns the integer
\* code when the first line has the shape '<token> <digits> <text>' and None
\* for every first line that does not have that shape.
C24_CodeIffShape ==
    rec_op = "get_status_code" =>
        /\ rec_ret.kind # "raise"
        /\ IF HasShape(FirstLine)
             THEN rec_ret = RetInt(IntOf(SecondWord(FirstLine)))
             ELSE rec_ret = RetNone

\* C24 as amended: __get_status_code never raises for a string; it returns
\* an integer exactly when the first line holds a space and what stands
\* between its first space and the next (or the end of the line) is a
\* number as int() reads it: digits, with a sign before them, single
\* underscores between them and whitespace around them allowed.  Neither a
\* token before the first space nor a text after the number is needed.  For
\* every other first line it returns None.
C24_CodeIffSecondWordIsNumber ==
    rec_op = "get_status_code" =>
        /\ rec_ret.kind # "raise"
        /\ IF SpacesOf(FirstLine) # {} /\ IntLiteral(SecondWord(FirstLine)).ok
             THEN rec_ret = RetInt(IntLiteral(SecondWord(FirstLine)).value)
             ELSE rec_ret = RetNone

\* C24 witness: a status line without a text after the code gave the code.
C24_Witness ==
    /\ rec_op = "get_status_code"
    /\ rec_msg = "RT/4.0.7 200"
    /\ rec_ret = RetInt(200)

\* ------------------------------------------------------------------------
\* Properties of the paginated fetcher.
\* ------------------------------------------------------------------------
Finished == status \in {"done", "raised"}

\* The page numbers of the transport calls of this iteration.
PagesAsked == [k \in 1..Len(calls) |-> calls[k].params.page]

\* C2: started at page 1 against a server whose envelopes all echo the page
\* asked and all report pages = N >= 1, a finished iteration has issued
\* exactly N calls, for the pages 1..N in order, and has delivered exactly
\* the items the server returned for them, in that order.
C2_PaginationExhaustion ==
    (status = "done" /\ args.page = 1 /\ honest /\ firstEnv.pages >= 1) =>
        /\ Len(calls) = firstEnv.pages
        /\ PagesAsked = [k \in 1..firstEnv.pages |-> k]
        /\ delivered = served

\* C2 witness: three pages of two items each: six records, three calls.
C2_Witness ==
    /\ status = "done" /\ args.page = 1 /\ honest
    /\ firstEnv.pages = 3
    /\ Len(calls) = 3
    /\ delivered = <<<<1, 1>>, <<1, 2>>, <<2, 1>>, <<2, 2>>, <<3, 1>>, <<3, 2>>>>

C5_MalformedRaisesUnexpected ==
    (Finished /\ lastEnv # NoEnv /\ ~({"items", "pages", "page"} \subseteq lastEnv.keys)) =>
        (status = "raised" /\ err = "UnexpectedResponseError")

\* C6: no transport call is issued before the consumer asks for the first
\* record; at most one call is in flight, and only while the consumer waits
\* for a record; a call is issued only when every item served before has
\* been yielded; every record delivered in an iteration was served to a
\* call of that same iteration.
C6_LazySequential ==
    /\ status = "created" => (calls = <<>> /\ inflight = 0)
    /\ inflight \in {0, 1}
    /\ inflight = 1 => (control = "generator" /\ delivered = served)
    /\ IsPrefix(delivered, served)
    /\ served # <<>> => calls # <<>>

\* C6 witness: the call for page 2 is in flight, after both items of page 1
\* were yielded.
C6_Witness ==
    /\ inflight = 1
    /\ Len(calls) = 2
    /\ delivered = <<<<1, 1>>, <<1, 2>>>>

\* The steps one visit of a page takes at most: the request, the response,
\* a yield and the consumer's next request per item, and the return.
VisitCost == 2 * MaxItems + 3

\* The steps before the first envelope is known are worth more than all the
\* steps any envelope can ask for.
StartCost == 2 * MaxItems + 4 + MaxPages * (VisitCost + 1)

\* The steps a frame still takes for the items of its envelope.
ItemsCost(f) == 2 * (Len(f.result.items) + 1 - f.i) + 1

\* The steps the loop of the outermost frame still takes from page `from`.
LoopCost(f, from) == Max(0, f.result.pages + 1 - from) * (VisitCost + 1) + 1

\* A variant of the iteration: an upper bound of the steps left.
FrameCost(f, outermost) ==
    IF f.pc = "start" THEN (IF outermost THEN StartCost ELSE VisitCost)
    ELSE IF f.pc = "wait" THEN (IF outermost THEN StartCost ELSE VisitCost) - 1
    ELSE IF f.pc = "items"
      THEN ItemsCost(f) + (IF outermost THEN LoopCost(f, 2) ELSE 0)
    ELSE LoopCost(f, f.loopPage)

Variant ==
    IF Finished THEN 0
    ELSE (IF control = "consumer" THEN 1 ELSE 0)
         + (IF Len(stack) = 1 THEN FrameCost(stack[1], TRUE)
            ELSE LoopCost(stack[1], stack[1].loopPage + 1) + FrameCost(stack[2], FALSE))

\* C7: whatever the envelopes report, an iteration issues at most
\* max(1, pages of the first envelope) transport calls and never nests more
\* than two frames; an unfinished iteration can always take a step, and
\* every step of it decreases a natural-number variant: the iteration ends
\* (returns or raises) after finitely many steps.
C7_Terminates ==
    /\ [](/\ Len(calls) <= Max(1, firstEnv.pages)
          /\ Len(stack) <= 2
          /\ Variant >= 0
          /\ ~Finished => ENABLED NextPaged)
    /\ [][~Finished => Variant' < Variant]_vars

\* C7 witness: an iteration ended after three calls although the last
\* envelope reported further pages.
C7_Witness ==
    /\ status = "done"
    /\ Len(calls) = 3
    /\ lastEnv.pages > lastEnv.page

====
